---- MODULE Spec2Model ----
(***************************************************************************)
(* Model of the two generators of amplify_derive:                          *)
(*   - the From generator (src/src/from.rs): attribute parsing, the        *)
(*     instruction table with duplicate detection, emission;               *)
(*   - the Wrapper / WrapperMut generators (src/src/wrapper.rs): the       *)
(*     wrap-target resolver get_params, the capability resolution          *)
(*     get_wrappers and the per-capability synthesis;                      *)
(* and of the attribute diagnostics of its helpers                         *)
(* (src/helpers/src/error.rs) with their rendering.                        *)
(* A syntax tree handed over by the parser is modelled by records: a type  *)
(* is a Type::Path, an attribute is its path and the Meta parse_meta gives *)
(* for it, a token stream is a sequence of token strings.                  *)
(***************************************************************************)
EXTENDS Integers, Sequences, FiniteSets, TLC

VARIABLES gen, kind, fields, variant, nvar, pc, level, list, last, table,
          seen, result, output, wrappers, request, target, run, call, other

vars == <<gen, kind, fields, variant, nvar, pc, level, list, last, table,
          seen, result, output, wrappers, request, target, run, call, other>>

(***************************************************************************)
(* Bounds of the model.                                                    *)
(***************************************************************************)
\* fields of a struct, union or enum variant
MaxFields == 2
\* variants of an enum
MaxVariants == 2
\* entries of one #[from(...)] list, and instructions pending in one attribute set
MaxList == 2
\* capability names listed over all #[wrapper(...)] attributes of a declaration
MaxNames == 2
\* #[wrap] attributes on one field
MaxWrap == 2
\* number-format names listed over all #[wrapper(...)] attributes of a declaration
MaxFmt == 5
\* names listed on the declaration whose impls are applied to values
MaxOps == 2
\* the wrapped integers the impls are applied to
MaxInt == 9
\* entries of the nested list carried by a diagnostic
MaxArgs == 1
\* attributes read by each of two invocations of one compilation
MaxUnit == 2

(***************************************************************************)
(* Syntax trees.                                                           *)
(***************************************************************************)
None == "None"

\* paths that name types, in attributes and as declared field types
Paths == {<<"u8">>, <<"io", "Error">>}

\* Type::Path(TypePath { path, qself: None })
TypePath(path) == [kind |-> "Path", qself |-> None, path |-> path]

Types == {TypePath(p) : p \in Paths}

FieldNames == <<"a", "b", "c", "d">>
VariantNames == <<"V1", "V2", "V3", "V4">>

SeqsUpTo(S, n) == UNION {[1..k -> S] : k \in 0..n}

\* Fields::Named / Fields::Unnamed / Fields::Unit with the fields in order
NamedFields(tys, wraps) ==
    [style |-> "Named",
     items |-> [i \in 1..Len(tys) |->
                   [ident |-> FieldNames[i], ty |-> tys[i], wrap |-> wraps[i]]]]

UnnamedFields(tys, wraps) ==
    [style |-> "Unnamed",
     items |-> [i \in 1..Len(tys) |->
                   [ident |-> None, ty |-> tys[i], wrap |-> wraps[i]]]]

UnitFields == [style |-> "Unit", items |-> <<>>]

NoWraps(tys) == [i \in 1..Len(tys) |-> 0]

TypeSeq == <<TypePath(<<"u8">>), TypePath(<<"io", "Error">>)>>

\* the declared field types: a single field has any of the types, the fields of a
\* longer list have the types in rotation
FieldTypes(n) ==
    IF n <= 1 THEN [1..n -> Types]
    ELSE {[i \in 1..n |-> TypeSeq[((i - 1) % Len(TypeSeq)) + 1]]}

\* the field lists the From generator is run on
FromFields ==
    {UnitFields}
      \cup UNION {{NamedFields(tys, NoWraps(tys)) : tys \in FieldTypes(n)} :
                    n \in 0..MaxFields}
      \cup UNION {{UnnamedFields(tys, NoWraps(tys)) : tys \in FieldTypes(n)} :
                    n \in 0..MaxFields}

\* a union has named fields, at least one
UnionFields ==
    UNION {{NamedFields(tys, NoWraps(tys)) : tys \in FieldTypes(n)} :
             n \in 1..MaxFields}

Kinds == {"struct", "enum", "union"}

(***************************************************************************)
(* Token streams and their rendering.                                      *)
(***************************************************************************)
\* ToTokens of a path: its segments separated by `::`
RECURSIVE PathTokens(_)
PathTokens(path) ==
    IF Len(path) = 0 THEN <<>>
    ELSE IF Len(path) = 1 THEN <<path[1]>>
    ELSE <<path[1], "::">> \o PathTokens(Tail(path))

\* quote! { #ty }
TypeTokens(ty) == PathTokens(ty.path)

\* format!("{}", stream): the tokens separated by one space
RECURSIVE Format(_)
Format(tokens) ==
    IF Len(tokens) = 0 THEN ""
    ELSE IF Len(tokens) = 1 THEN tokens[1]
    ELSE tokens[1] \o " " \o Format(Tail(tokens))

(***************************************************************************)
(* Results.                                                                *)
(***************************************************************************)
Running == [kind |-> "Running"]
Ok == [kind |-> "Ok"]
\* syn::Error with the message built from `fmt` and the rendered `args`; err!
\* hands NAME to attr_err!; attr_err!(tokens, msg) has no argument and reports at
\* the tokens, which are recorded in args when they are the path of a list entry
Err(fmt, args) == [kind |-> "Err", fmt |-> fmt, args |-> args]
\* a panic: unreachable!(), an index out of bounds
Panic(what) == [kind |-> "Panic", fmt |-> what, args |-> <<>>]

(***************************************************************************)
(* From generator: src/src/from.rs                                         *)
(***************************************************************************)
NAME == "from"

\* InstructionEntity
EntityDefault == [tag |-> "Default"]
EntityUnit(v) == [tag |-> "Unit", variant |-> v]
EntityNamed(v, f) == [tag |-> "Named", variant |-> v, field |-> f]
EntityUnnamed(v, i) == [tag |-> "Unnamed", variant |-> v, index |-> i]

\* a variant of with_fields that takes every entity for a unit
with_fields_unit(fs, v) == EntityUnit(v)

with_fields(fs, v) ==
    IF Len(fs.items) = 0 THEN EntityUnit(v) ELSE EntityDefault

\* index counts from 0, as enumerate() does
with_field(index, field, v) ==
    IF field.ident # None THEN EntityNamed(v, field.ident)
    ELSE EntityUnnamed(v, index)

\* variant.map_or(quote! {}, |v| quote! {:: #v})
VarTokens(v) == IF v = None THEN <<>> ELSE <<"::", v>>

\* a variant of the prefix that writes no default value
DefaultPrefixNone(n) == <<>>

RECURSIVE DefaultPrefix(_)
DefaultPrefix(n) ==
    IF n = 0 THEN <<>>
    ELSE <<"Default", "::", "default", "(", ")", ",">> \o DefaultPrefix(n - 1)

Entity_into_token_stream2(e) ==
    CASE e.tag = "Default" -> <<"Self", "::", "default", "(", ")", ";">>
      [] e.tag = "Unit" -> <<"Self">> \o VarTokens(e.variant)
      [] e.tag = "Named" ->
            <<"Self">> \o VarTokens(e.variant)
              \o <<"{", e.field, ":", "v", ".", "into", "(", ")", ",",
                   "..", "Default", "::", "default", "(", ")", "}">>
      [] e.tag = "Unnamed" ->
            <<"Self">> \o VarTokens(e.variant)
              \o <<"(">> \o DefaultPrefix(e.index)
              \o <<"v", ".", "into", "(", ")", ",",
                   "..", "Default", "::", "default", "(", ")", ")">>

\* InstructionEntry(Type, InstructionEntity)
Entry(ty, entity) == [ty |-> ty, entity |-> entity]

\* a variant of the comparison that also compares the targets
EntryEqWithEntity(l, r) == l = r

\* impl PartialEq for InstructionEntry: the rendered source types are compared
EntryEq(l, r) == Format(TypeTokens(l.ty)) = Format(TypeTokens(r.ty))

with_type(ty, entity) == Entry(ty, entity)

with_path(path, entity) == Entry(TypePath(path), entity)

\* the attributes: the attribute's path and the Meta that parse_meta returns,
\* or Invalid when parse_meta fails
MetaPath == [kind |-> "Path"]
MetaNameValue == [kind |-> "NameValue"]
MetaInvalid == [kind |-> "Invalid"]
MetaList(nested) == [kind |-> "List", nested |-> nested]

\* NestedMeta: Meta(Path), Meta(_) for a meta that is no path (a nested list),
\* Lit
NestedPath(path) == [kind |-> "Path", path |-> path]
NestedList == [kind |-> "List"]
NestedLit == [kind |-> "Lit"]

Attr(path, meta) == [path |-> path, meta |-> meta]

FromNested == {NestedPath(p) : p \in Paths} \cup {NestedList, NestedLit}

\* the lists of up to n entries: lists of paths, lists of paths that end in an
\* entry that is no path, and the lists of two entries whose first is no path
FromLists(n) ==
    LET paths == {NestedPath(p) : p \in Paths}
        bad == FromNested \ paths IN
    SeqsUpTo(paths, n)
      \cup {Append(l, b) : l \in SeqsUpTo(paths, n - 1), b \in bad}
      \cup {l \in [1..2 -> FromNested] : n >= 2 /\ l[1] \in bad}

FromAttrs ==
    {Attr(NAME, m) : m \in {MetaPath, MetaNameValue, MetaInvalid}}
      \cup {Attr(NAME, MetaList(n)) : n \in FromLists(MaxList)}
      \cup {Attr("doc", MetaNameValue)}

\* the messages, as written in the source; a backquote is written as '
MSG_SINGLE ==
    "empty '#[from]' attribute allowed only for entities with a single field; for multi-field entities specify '#[from]' right ahead of the target field"
MSG_WRONG_TYPE == "wrong type name"
\* a variant in which a literal is reported as a wrong type name
MSG_LITERAL_AS_TYPE == "wrong type name"
MSG_LITERAL == "unexpected literal"
MSG_QUOTES == "do not use quotes; use '()' instead"
MSG_REPEATED == "Attribute '#[{}]': repeated use of type '{}'"
MSG_TOP_LEVEL ==
    "top-level attribute is not allowed, use it for specific fields or variants"
MSG_PARSE_META == "parse_meta"

\* the entries of a #[from(A, B)] list, up to the first entry that is no path
RECURSIVE ParseNested(_, _, _)
ParseNested(nested, entity, acc) ==
    IF Len(nested) = 0 THEN [ok |-> TRUE, add |-> acc]
    ELSE LET meta == nested[1] IN
         CASE meta.kind = "Path" ->
                 ParseNested(Tail(nested), entity,
                             Append(acc, with_path(meta.path, entity)))
           [] meta.kind = "List" ->
                 [ok |-> FALSE, err |-> Err(MSG_WRONG_TYPE, <<NAME>>)]
           [] meta.kind = "Lit" ->
                 [ok |-> FALSE, err |-> Err(MSG_LITERAL, <<NAME>>)]

\* a variant of the loop body that takes the first field of any non-empty field
\* list for a bare attribute
ParseOneFirstField(fs, attr, entity) ==
    IF attr.path # NAME THEN [ok |-> TRUE, add |-> <<>>]
    ELSE CASE attr.meta.kind = "Invalid" ->
                 [ok |-> FALSE, err |-> Err(MSG_PARSE_META, <<>>)]
           [] attr.meta.kind = "Path" ->
                 IF Len(fs.items) >= 1
                 THEN [ok |-> TRUE, add |-> <<with_type(fs.items[1].ty, entity)>>]
                 ELSE [ok |-> FALSE, err |-> Err(MSG_SINGLE, <<NAME>>)]
           [] attr.meta.kind = "List" ->
                 ParseNested(attr.meta.nested, entity, <<>>)
           [] attr.meta.kind = "NameValue" ->
                 [ok |-> FALSE, err |-> Err(MSG_QUOTES, <<NAME>>)]

\* the body of the loop of InstructionEntry::parse for one attribute
ParseOne(fs, attr, entity) ==
    IF attr.path # NAME THEN [ok |-> TRUE, add |-> <<>>]
    ELSE CASE attr.meta.kind = "Invalid" ->
                 [ok |-> FALSE, err |-> Err(MSG_PARSE_META, <<>>)]
           [] attr.meta.kind = "Path" ->
                 IF Len(fs.items) = 1
                 THEN [ok |-> TRUE, add |-> <<with_type(fs.items[1].ty, entity)>>]
                 ELSE [ok |-> FALSE, err |-> Err(MSG_SINGLE, <<NAME>>)]
           [] attr.meta.kind = "List" ->
                 ParseNested(attr.meta.nested, entity, <<>>)
           [] attr.meta.kind = "NameValue" ->
                 [ok |-> FALSE, err |-> Err(MSG_QUOTES, <<NAME>>)]

\* the shape of one attribute as InstructionEntry::parse tells it: the form of a
\* from attribute, and for a list the first entry that is no path
FirstBad(nested) ==
    LET bad == {i \in 1..Len(nested) : nested[i].kind # "Path"} IN
    IF bad = {} THEN "Path"
    ELSE nested[CHOOSE i \in bad : \A j \in bad : i <= j].kind

Shape(attr) ==
    IF attr.path # NAME THEN "skip"
    ELSE IF attr.meta.kind = "List" /\ FirstBad(attr.meta.nested) # "Path"
    THEN "List(" \o FirstBad(attr.meta.nested) \o ")"
    ELSE attr.meta.kind

\* self.0.iter().find(|e| *e == &entry)
Found(tbl, entry) == \E i \in 1..Len(tbl) : EntryEq(tbl[i], entry)

\* the message names the identifier `ty`: quote! {ty}
RepeatedError(entry) == Err(MSG_REPEATED, <<NAME, Format(<<"ty">>)>>)

\* InstructionTable::extend
RECURSIVE extend(_, _)
extend(tbl, entries) ==
    IF Len(entries) = 0 THEN [ok |-> TRUE, table |-> tbl]
    ELSE IF Found(tbl, entries[1])
         THEN [ok |-> FALSE, err |-> RepeatedError(entries[1]),
               dup |-> entries[1].ty]
         ELSE extend(Append(tbl, entries[1]), Tail(entries))

\* a variant of the emission that walks the table from its end
Table_into_token_stream2_rev(tbl) ==
    [i \in 1..Len(tbl) |->
        [trait |-> "From",
         from |-> TypeTokens(tbl[Len(tbl) + 1 - i].ty),
         convert |-> Entity_into_token_stream2(tbl[Len(tbl) + 1 - i].entity)]]

\* InstructionTable::into_token_stream2: one impl per entry, in table order
Table_into_token_stream2(tbl) ==
    [i \in 1..Len(tbl) |->
        [trait |-> "From",
         from |-> TypeTokens(tbl[i].ty),
         convert |-> Entity_into_token_stream2(tbl[i].entity)]]

\* the entity the attributes of the current level are parsed for
LevelEntity ==
    IF level = 0 THEN with_fields(fields, variant)
    ELSE with_field(level - 1, fields.items[level], variant)

\* what has been read of the #[from] attributes of a struct or union: "none", "bare"
\* for exactly one attribute, a bare #[from] at the type level, "more" otherwise
SeenNone == "none"

Saw(attr) ==
    IF attr.path # NAME \/ kind = "enum" THEN seen
    ELSE IF seen = "none" /\ level = 0 /\ attr.meta.kind = "Path" THEN "bare"
    ELSE "more"

\* the emitted impls have not been used on values
NoRun == [stage |-> "idle"]

\* no application of a function of the helpers or of the enumerations
NoCall == [fn |-> "none"]

\* no second invocation in the compilation
NoOther == [gen |-> "none"]

\* no wrap target resolved (yet)
NoTarget == [field |-> None, from |-> TypePath(<<>>)]

WrapperIdle == /\ wrappers = <<>> /\ request = <<>> /\ target = NoTarget

InitFrom ==
    /\ gen = "from"
    /\ kind \in Kinds
    /\ fields \in (CASE kind = "struct" -> FromFields
                     [] kind = "union" -> UnionFields
                     [] kind = "enum" -> {UnitFields})
    /\ variant = None
    /\ nvar = 0
    /\ pc = IF kind = "enum" THEN "top" ELSE "attrs"
    /\ level = 0
    /\ list = <<>>
    /\ last = "none"
    /\ table = <<>>
    /\ seen = SeenNone
    /\ result = Running
    /\ output = <<>>
    /\ WrapperIdle
    /\ run = NoRun
    /\ call = NoCall
    /\ other = NoOther

\* .find(|attr| attr.path.is_ident(NAME)): a variant that lets every form but the
\* bare one pass
IsTopLevelFromBareOnly(attr) == attr.path = NAME /\ attr.meta.kind = "Path"

\* .find(|attr| attr.path.is_ident(NAME)), for one attribute
IsTopLevelFrom(attr) == attr.path = NAME

\* inner_enum: the scan of the enum's own attributes meets one attribute
EnumTopAttr ==
    /\ gen = "from" /\ pc = "top"
    /\ \E attr \in FromAttrs :
          /\ last' = IF attr.path = NAME THEN attr.meta.kind ELSE "skip"
          /\ IF IsTopLevelFrom(attr)
             THEN /\ result' = Err(MSG_TOP_LEVEL, <<>>)
                  /\ pc' = "done"
             ELSE UNCHANGED <<result, pc>>
    /\ UNCHANGED <<call, other, run, gen, kind, fields, variant, nvar, level, list, table, seen,
                   output, wrappers, request, target>>

\* inner_enum: no attribute of the enum itself is a `from`; on to the variants
EnumTopEnd ==
    /\ gen = "from" /\ pc = "top"
    /\ pc' = "variant"
    /\ last' = "none"
    /\ UNCHANGED <<call, other, run, gen, kind, fields, variant, nvar, level, list, table, seen,
                   result, output, wrappers, request, target>>

\* inner_enum: the loop takes the next variant and starts InstructionTable::parse
EnumVariant ==
    /\ gen = "from" /\ pc = "variant" /\ nvar < MaxVariants
    /\ \E fs \in FromFields :
          /\ fields' = fs
          /\ variant' = VariantNames[nvar + 1]
    /\ nvar' = nvar + 1
    /\ level' = 0
    /\ list' = <<>>
    /\ last' = "none"
    /\ pc' = "attrs"
    /\ UNCHANGED <<call, other, run, gen, kind, table, seen, result, output, wrappers, request, target>>

\* inner_enum: no variant is left; the table is emitted
EnumEnd ==
    /\ gen = "from" /\ pc = "variant"
    /\ result' = Ok
    /\ output' = Table_into_token_stream2(table)
    /\ pc' = "done"
    /\ UNCHANGED <<call, other, run, gen, kind, fields, variant, nvar, level, list, last, table,
                   seen, wrappers, request, target>>

\* InstructionEntry::parse: the loop body for the attribute attr
Parse(attr) ==
    /\ gen = "from" /\ pc = "attrs"
    /\ LET r == ParseOne(fields, attr, LevelEntity) IN
       /\ seen' = Saw(attr)
       /\ last' = Shape(attr)
       /\ IF r.ok
          THEN /\ Len(list) + Len(r.add) <= MaxList
               /\ list' = list \o r.add
               /\ UNCHANGED <<pc, result, table>>
          ELSE /\ result' = r.err
               /\ pc' = "done"
               /\ list' = <<>>
               /\ table' = <<>>
    /\ UNCHANGED <<call, other, run, gen, kind, fields, variant, nvar, level, output,
                   wrappers, target>>

\* InstructionEntry::parse: one attribute of the current attribute set
ParseAttr ==
    /\ \E attr \in FromAttrs : Parse(attr)
    /\ UNCHANGED request

\* InstructionEntry::parse returns its list, InstructionTable::extend inserts it,
\* and InstructionTable::parse goes on to the next field; after the last field
\* inner_struct / inner_union emit the table, inner_enum goes to the next variant
EndAttrs ==
    /\ gen = "from" /\ pc = "attrs"
    /\ LET r == extend(table, list) IN
       IF ~r.ok
       THEN /\ result' = r.err
            /\ pc' = "done"
            /\ list' = <<>>
            /\ table' = <<>>
            /\ UNCHANGED <<level, last, output>>
       ELSE /\ table' = r.table
            /\ list' = <<>>
            /\ last' = "none"
            /\ IF level < Len(fields.items)
               THEN /\ level' = level + 1
                    /\ UNCHANGED <<pc, result, output>>
               ELSE IF kind = "enum"
               THEN /\ pc' = "variant"
                    /\ UNCHANGED <<level, result, output>>
               ELSE /\ pc' = "done"
                    /\ result' = Ok
                    /\ output' = Table_into_token_stream2(r.table)
                    /\ UNCHANGED level
    /\ UNCHANGED <<call, other, run, gen, kind, fields, variant, nvar, seen, wrappers, request, target>>

NextFrom ==
    \/ EnumTopAttr
    \/ EnumTopEnd
    \/ EnumVariant
    \/ EnumEnd
    \/ ParseAttr
    \/ EndAttrs

Spec == InitFrom /\ [][NextFrom]_vars

(***************************************************************************)
(* Wrapper generators: src/src/wrapper.rs                                  *)
(***************************************************************************)
\* enum Wrapper, in declaration order
WrapperEnum ==
    <<"NoRefs",
      "FromStr", "Display", "Debug", "Octal", "FromHex", "LowerHex", "UpperHex",
      "LowerExp", "UpperExp",
      "Deref", "AsRef", "AsSlice", "Borrow", "BorrowSlice",
      "Index", "IndexRange", "IndexFull", "IndexFrom", "IndexTo",
      "IndexInclusive", "IndexToInclusive",
      "Neg", "Add", "Sub", "Mul", "Div", "Rem",
      "Not", "Shl", "Shr", "BitAnd", "BitOr", "BitXor",
      "Hex", "Exp", "NumberFmt", "RangeOps", "MathOps", "BoolOps", "BitOps">>

\* enum WrapperMut, in declaration order
WrapperMutEnum ==
    <<"NoRefs",
      "DerefMut", "AsMut", "AsSliceMut", "BorrowMut", "BorrowSliceMut",
      "IndexMut", "IndexRangeMut", "IndexFullMut", "IndexFromMut", "IndexToMut",
      "IndexInclusiveMut", "IndexToInclusiveMut",
      "AddAssign", "SubAssign", "MulAssign", "DivAssign", "RemAssign",
      "ShlAssign", "ShrAssign",
      "BitAndAssign", "BitOrAssign", "BitXorAssign",
      "RangeMut", "MathAssign", "BoolAssign", "BitAssign">>

Range(f) == {f[i] : i \in DOMAIN f}

\* T::IDENT
IDENT(T) == IF T = "wrapper" THEN "wrapper" ELSE "wrapper_mut"

\* T::NO_REFS
NO_REFS(T) == "NoRefs"

\* a variant of default_set without defaults
default_set_none(T) == <<>>

default_set(T) ==
    IF T = "wrapper" THEN <<"AsRef", "Borrow">> ELSE <<"AsMut", "BorrowMut">>

\* a variant of is_not_ref that takes only the as-reference member for a reference
is_not_as_ref(T, w) == IF T = "wrapper" THEN w # "AsRef" ELSE w # "AsMut"

is_not_ref(T, w) ==
    IF T = "wrapper" THEN w # "AsRef" /\ w # "Borrow"
    ELSE w # "AsMut" /\ w # "BorrowMut"

\* the match of Wrapper::from_path, arm by arm: the string and the member
WrapperFromPath ==
    << <<"FromStr", "FromStr">>, <<"Display", "Display">>, <<"Debug", "Debug">>,
       <<"Octal", "Octal">>, <<"FromHex", "FromHex">>, <<"LowerHex", "LowerHex">>,
       <<"UpperHex", "UpperHex">>, <<"LowerExp", "LowerExp">>,
       <<"UpperExp", "UpperExp">>, <<"NoRefs", "NoRefs">>, <<"AsRef", "AsRef">>,
       <<"AsSlice", "AsSlice">>, <<"Deref", "Deref">>, <<"Borrow", "Borrow">>,
       <<"BorrowSlice", "BorrowSlice">>, <<"Index", "Index">>,
       <<"IndexRange", "IndexRange">>, <<"IndexFull", "IndexFull">>,
       <<"IndexFrom", "IndexFrom">>, <<"IndexTo", "IndexTo">>,
       <<"IndexInclusive", "IndexInclusive">>,
       <<"IndexToInclusive", "IndexToInclusive">>,
       <<"Add", "Add">>, <<"Neg", "Neg">>, <<"Not", "Not">>, <<"Sub", "Sub">>,
       <<"Mul", "Mul">>, <<"Div", "Div">>, <<"Rem", "Rem">>, <<"Shl", "Shl">>,
       <<"Shr", "Shr">>, <<"BitAnd", "BitAnd">>, <<"BitOr", "BitOr">>,
       <<"BitXor", "BitXor">>,
       <<"Hex", "Hex">>, <<"Exp", "Exp">>, <<"NumberFmt", "NumberFmt">>,
       <<"RangeOps", "RangeOps">>, <<"MathOps", "MathOps">>,
       <<"BoolOps", "BoolOps">>, <<"BitOps", "BitOps">> >>

\* the match of WrapperMut::from_path, arm by arm
WrapperMutFromPath ==
    << <<"NoRefs", "NoRefs">>, <<"DerefMut", "DerefMut">>, <<"AsMut", "AsMut">>,
       <<"AsSliceMut", "AsSliceMut">>, <<"BorrowMut", "BorrowMut">>,
       <<"BorrowSliceMut", "BorrowSliceMut">>, <<"IndexMut", "IndexMut">>,
       <<"IndexRangeMut", "IndexRangeMut">>, <<"IndexFullMut", "IndexFullMut">>,
       <<"IndexFromMut", "IndexFromMut">>, <<"IndexToMut", "IndexToMut">>,
       <<"IndexInclusiveMut", "IndexInclusiveMut">>,
       <<"IndexToInclusiveMut", "IndexToInclusiveMut">>,
       <<"AddAssign", "AddAssign">>, <<"SubAssign", "SubAssign">>,
       <<"MulAssign", "MulAssign">>, <<"DivAssign", "DivAssign">>,
       <<"RemAssign", "RemAssign">>, <<"ShlAssign", "ShlAssign">>,
       <<"ShrAssign", "ShrAssign">>, <<"BitAndAssign", "BitAndAssign">>,
       <<"BitOrAssign", "BitOrAssign">>, <<"BitXorAssign", "BitXorAssign">>,
       <<"RangeMut", "RangeMut">>, <<"MathAssign", "MathAssign">>,
       <<"BoolAssign", "BoolAssign">>, <<"BitAssign", "BitAssign">> >>

\* the first arm of the match whose string is s, or None (the `_` arm)
RECURSIVE MatchArm(_, _)
MatchArm(arms, s) ==
    IF Len(arms) = 0 THEN None
    ELSE IF arms[1][1] = s THEN arms[1][2]
    ELSE MatchArm(Tail(arms), s)

\* a variant of from_path that resolves the names of both families in the table of
\* Wrapper
from_path_wrapper(T, path) ==
    IF Len(path) = 0
    THEN [ok |-> FALSE, err |-> Err("must contain at least one identifier", <<"wrapper">>)]
    ELSE [ok |-> TRUE, some |-> MatchArm(WrapperFromPath, path[1])]

\* T::from_path: the first segment of the path decides; Err for a path without
\* segments, None for an unknown name
from_path(T, path) ==
    IF Len(path) = 0
    THEN [ok |-> FALSE, err |-> Err("must contain at least one identifier", <<"wrapper">>)]
    ELSE [ok |-> TRUE,
          some |-> MatchArm(IF T = "wrapper" THEN WrapperFromPath
                            ELSE WrapperMutFromPath, path[1])]

\* the group arms of Wrapper::populate
WrapperGroup(w) ==
    CASE w = "Hex" -> <<"LowerHex", "UpperHex", "FromHex">>
      [] w = "Exp" -> <<"LowerExp", "UpperExp">>
      [] w = "NumberFmt" -> <<"LowerHex", "UpperHex", "LowerExp", "UpperExp", "Octal">>
      [] w = "RangeOps" -> <<"IndexRange", "IndexFrom", "IndexTo", "IndexInclusive",
                             "IndexToInclusive", "IndexFull">>
      [] w = "MathOps" -> <<"Neg", "Add", "Sub", "Mul", "Div", "Rem">>
      [] w = "BoolOps" -> <<"Not", "BitAnd", "BitOr", "BitXor">>
      [] w = "BitOps" -> <<"Not", "BitAnd", "BitOr", "BitXor", "Shl", "Shr">>
      [] OTHER -> <<>>

\* the group arms of WrapperMut::populate
WrapperMutGroup(w) ==
    CASE w = "RangeMut" -> <<"IndexRangeMut", "IndexFromMut", "IndexToMut",
                             "IndexInclusiveMut", "IndexToInclusiveMut", "IndexFullMut">>
      [] w = "MathAssign" -> <<"AddAssign", "SubAssign", "MulAssign", "DivAssign",
                               "RemAssign">>
      [] w = "BoolAssign" -> <<"BitAndAssign", "BitOrAssign", "BitXorAssign">>
      [] w = "BitAssign" -> <<"BitAndAssign", "BitOrAssign", "BitXorAssign",
                              "ShlAssign", "ShrAssign">>
      [] OTHER -> <<>>

\* the members a group appends; none for a member that is no group
Group(T, w) == IF T = "wrapper" THEN WrapperGroup(w) ELSE WrapperMutGroup(w)

\* a variant of populate that appends every member as itself
populate_self(T, w, lst) == Append(lst, w)

\* T::populate: a group appends its members, any other member appends itself
populate(T, w, lst) ==
    IF Group(T, w) = <<>> THEN Append(lst, w) ELSE lst \o Group(T, w)

\* the arms of into_token_stream2 that emit an impl; the others are unreachable!()
IsLeaf(T, w) ==
    IF T = "wrapper"
    THEN w \in Range(WrapperEnum)
           \ {"NoRefs", "Hex", "Exp", "NumberFmt", "RangeOps", "MathOps", "BoolOps",
              "BitOps"}
    ELSE w \in Range(WrapperMutEnum)
           \ {"NoRefs", "RangeMut", "MathAssign", "BoolAssign", "BitAssign"}

\* what the emitted body forwards to: the constructor of the wrapped type (#from),
\* the as_mut() of the wrapper, or the wrapped field (#field)
Via(T, w) ==
    IF T = "wrapper"
    THEN IF w \in {"FromStr", "FromHex"} THEN "from" ELSE "field"
    ELSE IF w \in {"IndexMut", "IndexRangeMut", "IndexFullMut", "IndexFromMut",
                   "IndexToMut", "IndexInclusiveMut", "IndexToInclusiveMut"}
         THEN "as_mut" ELSE "field"

\* the index arms of Wrapper::into_token_stream2: the member, the index type the
\* impl is declared for, the index type of `type Output = <#from as Index<..>>::Output`
\* and the type of the argument of fn index
WrapperIndex ==
    << <<"Index", "usize", "usize", "usize">>,
       <<"IndexRange", "Range<usize>", "Range<usize>", "Range<usize>">>,
       <<"IndexFrom", "RangeFrom<usize>", "RangeFrom<usize>", "RangeFrom<usize>">>,
       <<"IndexTo", "RangeTo<usize>", "RangeTo<usize>", "RangeTo<usize>">>,
       <<"IndexInclusive", "RangeInclusive<usize>", "RangeInclusive<usize>",
         "RangeInclusive<usize>">>,
       <<"IndexToInclusive", "RangeToInclusive<usize>", "RangeInclusive<usize>",
         "RangeToInclusive<usize>">>,
       <<"IndexFull", "RangeFull", "RangeFull", "RangeFull">> >>

\* the index arms of WrapperMut::into_token_stream2, which declare no Output
WrapperMutIndex ==
    << <<"IndexMut", "usize", None, "usize">>,
       <<"IndexRangeMut", "Range<usize>", None, "Range<usize>">>,
       <<"IndexFromMut", "RangeFrom<usize>", None, "RangeFrom<usize>">>,
       <<"IndexToMut", "RangeTo<usize>", None, "RangeTo<usize>">>,
       <<"IndexInclusiveMut", "RangeInclusive<usize>", None, "RangeInclusive<usize>">>,
       <<"IndexToInclusiveMut", "RangeToInclusive<usize>", None,
         "RangeToInclusive<usize>">>,
       <<"IndexFullMut", "RangeFull", None, "RangeFull">> >>

\* the index types of the arm of w, None for an arm that is no index arm
RECURSIVE IndexArm(_, _)
IndexArm(arms, w) ==
    IF Len(arms) = 0 THEN [index |-> None, out |-> None, arg |-> None]
    ELSE IF arms[1][1] = w
         THEN [index |-> arms[1][2], out |-> arms[1][3], arg |-> arms[1][4]]
    ELSE IndexArm(Tail(arms), w)

\* Wrapper::into_token_stream2 / WrapperMut::into_token_stream2 for a leaf
Wrapper_into_token_stream2(T, w, from, field) ==
    LET ix == IndexArm(IF T = "wrapper" THEN WrapperIndex ELSE WrapperMutIndex, w) IN
    [trait |-> w, via |-> Via(T, w),
     field |-> IF Via(T, w) = "field" THEN field ELSE None,
     from |-> TypeTokens(from),
     index |-> ix.index, out |-> ix.out, arg |-> ix.arg]

\* the impls that inner / inner_mut emit before those of the capabilities
BaseImpls(T, from, field) ==
    IF T = "wrapper"
    THEN <<[trait |-> "amplify::Wrapper", via |-> "field", field |-> field,
            from |-> TypeTokens(from)],
           [trait |-> "From", via |-> "field", field |-> field,
            from |-> TypeTokens(from)]>>
    ELSE <<[trait |-> "amplify::WrapperMut", via |-> "field", field |-> field,
            from |-> TypeTokens(from)]>>

MSG_ENUM == "Deriving wrapper is not supported in enums"
MSG_UNION == "Deriving wrapper is not supported in unions"
MSG_ONLY_ONE == "Only a single field may be wrapped"
MSG_MULTI ==
    "When the structure has multiple fields you must point out the one you will wrap by using '#[wrap]' attribute"
MSG_UNIT == "Deriving wrapper is meaningless for unit structs"
WRAPPER_DERIVE_ERR == "Wrapper attributes must be in a form of type list"
MSG_UNRECOGNIZED == "Unrecognized wrapper parameter"
\* the panic of indexing the first field of an empty list: Punctuated::index
\* computes len() - 1 first, which panics where overflow is checked; where it
\* wraps, the index 0 is then out of the bounds of the empty list
MSG_INDEX(overflow_checks) ==
    IF overflow_checks THEN "attempt to subtract with overflow"
    ELSE "index out of bounds: the len is 0 but the index is 0"
MSG_UNREACHABLE == "internal error: entered unreachable code"

\* Index::from(index), as a token
IndexTokens == <<"0", "1", "2", "3">>

\* the token of field i (from 1): its identifier, or its position from 0
FieldToken(fs, i) ==
    IF fs.style = "Named" THEN fs.items[i].ident ELSE IndexTokens[i]

\* the loops of get_params over the fields and their attributes, from field i on:
\* source is the field marked so far (0: none); a second #[wrap] is an error
RECURSIVE ScanWrap(_, _, _)
ScanWrap(items, i, source) ==
    IF i > Len(items) THEN [ok |-> TRUE, source |-> source]
    ELSE IF items[i].wrap = 0 THEN ScanWrap(items, i + 1, source)
    ELSE IF source # 0 \/ items[i].wrap > 1 THEN [ok |-> FALSE, source |-> source]
    ELSE ScanWrap(items, i + 1, i)

\* a variant of get_params that takes the first field when several are unmarked
get_params_first(k, fs, overflow_checks) ==
    IF k # "struct" \/ Len(fs.items) = 0 THEN [ok |-> FALSE, err |-> Err(MSG_UNIT, <<>>)]
    ELSE LET r == ScanWrap(fs.items, 1, 0) IN
         IF ~r.ok THEN [ok |-> FALSE, err |-> Err(MSG_ONLY_ONE, <<>>)]
         ELSE LET i == IF r.source = 0 THEN 1 ELSE r.source IN
              [ok |-> TRUE, field |-> FieldToken(fs, i), from |-> fs.items[i].ty]

\* get_params, in a build with or without overflow checks
get_params(k, fs, overflow_checks) ==
    CASE k = "enum" -> [ok |-> FALSE, err |-> Err(MSG_ENUM, <<>>)]
      [] k = "union" -> [ok |-> FALSE, err |-> Err(MSG_UNION, <<>>)]
      [] k = "struct" /\ fs.style = "Unit" -> [ok |-> FALSE, err |-> Err(MSG_UNIT, <<>>)]
      [] k = "struct" /\ fs.style # "Unit" ->
            \* fields.named[0] / fields.unnamed[0]
            IF Len(fs.items) = 0 THEN [ok |-> FALSE, err |-> Panic(MSG_INDEX(overflow_checks))]
            ELSE LET r == ScanWrap(fs.items, 1, 0) IN
                 IF ~r.ok THEN [ok |-> FALSE, err |-> Err(MSG_ONLY_ONE, <<>>)]
                 ELSE IF r.source = 0 /\ Len(fs.items) > 1
                 THEN [ok |-> FALSE, err |-> Err(MSG_MULTI, <<>>)]
                 ELSE LET i == IF r.source = 0 THEN 1 ELSE r.source IN
                      [ok |-> TRUE, field |-> FieldToken(fs, i),
                       from |-> fs.items[i].ty]

\* the field lists the wrapper generators are run on: every field carries 0 to
\* MaxWrap #[wrap] attributes
WrapFields ==
    {UnitFields}
      \cup UNION {{NamedFields(tys, w) : tys \in FieldTypes(n), w \in [1..n -> 0..MaxWrap]} :
                    n \in 0..MaxFields}
      \cup UNION {{UnnamedFields(tys, w) : tys \in FieldTypes(n), w \in [1..n -> 0..MaxWrap]} :
                    n \in 0..MaxFields}

\* the fields of a union are named and there is at least one; the field list of
\* an enum is that of its first variant
UnionWrapFields == {fs \in WrapFields : fs.style = "Named" /\ Len(fs.items) >= 1}

\* struct W(u8): the declaration on which every name of the enumeration is requested
NewtypeFields == UnnamedFields(<<TypePath(<<"u8">>)>>, <<0>>)

\* the names requested on the other declarations
CoreNames(T) ==
    IF T = "wrapper" THEN {"Display", "Add", "NoRefs", "Deref", "Index", "MathOps"}
    ELSE {"AddAssign", "NoRefs", "DerefMut", "IndexMut", "MathAssign"}

AllNames(T) ==
    IF T = "wrapper" THEN Range(WrapperEnum) ELSE Range(WrapperMutEnum)

\* the entries of a #[wrapper(...)] list: names of the family, a name of the other
\* family, an unknown name, a path of two segments, a nested list, a literal
WrapperNested(T, fs) ==
    {NestedPath(<<n>>) :
        n \in (IF fs = NewtypeFields THEN AllNames(T) ELSE CoreNames(T))}
      \cup {NestedPath(<<IF T = "wrapper" THEN "AddAssign" ELSE "Display">>),
            NestedPath(<<"Foo">>),
            NestedPath(<<IF T = "wrapper" THEN "Add" ELSE "AddAssign", "Output">>),
            NestedList, NestedLit}

WrapperAttrs(T, fs, room) ==
    {Attr(IDENT(T), m) : m \in {MetaPath, MetaNameValue, MetaInvalid}}
      \cup {Attr(IDENT(T), MetaList(n)) : n \in SeqsUpTo(WrapperNested(T, fs), room)}
      \cup {Attr("doc", MetaNameValue),
            Attr(IF T = "wrapper" THEN "wrapper_mut" ELSE "wrapper", MetaPath)}

\* the loop of get_wrappers over the entries of one list
RECURSIVE ResolveNested(_, _, _)
ResolveNested(T, nested, acc) ==
    IF Len(nested) = 0 THEN [ok |-> TRUE, wrappers |-> acc]
    ELSE LET meta == nested[1] IN
         IF meta.kind = "Path"
         THEN LET r == from_path(T, meta.path) IN
              IF ~r.ok THEN [ok |-> FALSE, err |-> r.err]
              ELSE IF r.some = None
              THEN [ok |-> FALSE, err |-> Err(MSG_UNRECOGNIZED, <<Format(PathTokens(meta.path))>>)]
              ELSE ResolveNested(T, Tail(nested), populate(T, r.some, acc))
         ELSE [ok |-> FALSE, err |-> Err(WRAPPER_DERIVE_ERR, <<>>)]

\* the body of the loop of get_wrappers for one attribute
ResolveOne(T, attr, acc) ==
    IF attr.path # IDENT(T) THEN [ok |-> TRUE, wrappers |-> acc]
    ELSE IF attr.meta.kind = "List" THEN ResolveNested(T, attr.meta.nested, acc)
    ELSE [ok |-> FALSE, err |-> Err(WRAPPER_DERIVE_ERR, <<>>)]

\* wrappers.into_iter().filter(...).collect()
RECURSIVE Filter(_, _)
Filter(T, lst) ==
    IF Len(lst) = 0 THEN <<>>
    ELSE IF is_not_ref(T, lst[1]) THEN <<lst[1]>> \o Filter(T, Tail(lst))
    ELSE Filter(T, Tail(lst))

\* the end of get_wrappers: the NoRefs filter
FinishWrappers(T, lst) ==
    IF NO_REFS(T) \in Range(lst) THEN Filter(T, lst) ELSE lst

\* the record of what the attributes named T::IDENT request: the entries of the lists
\* up to the entry that is rejected, and an attribute that is no list as itself
RECURSIVE ReadNested(_, _)
ReadNested(T, nested) ==
    IF Len(nested) = 0 THEN <<>>
    ELSE IF nested[1].kind = "Path" /\ from_path(T, nested[1].path).ok
            /\ from_path(T, nested[1].path).some # None
         THEN <<nested[1]>> \o ReadNested(T, Tail(nested))
         ELSE <<nested[1]>>

Read(T, attr) ==
    IF attr.path # IDENT(T) THEN <<>>
    ELSE IF attr.meta.kind = "List" THEN ReadNested(T, attr.meta.nested)
    ELSE <<attr.meta>>

InitWrapper ==
    /\ gen \in {"wrapper", "wrapper_mut"}
    /\ kind \in Kinds
    /\ fields \in (IF kind = "union" THEN UnionWrapFields ELSE WrapFields)
    /\ variant = None
    /\ nvar = 0
    /\ pc = "params"
    /\ level = 0
    /\ list = <<>>
    /\ last = "none"
    /\ table = <<>>
    /\ seen = SeenNone
    /\ result = Running
    /\ output = <<>>
    /\ WrapperIdle
    /\ run = NoRun
    /\ call = NoCall
    /\ other = NoOther

\* inner / inner_mut: get_params, and on success the start of get_wrappers
GetParams ==
    /\ gen # "from" /\ pc = "params"
    /\ \E overflow_checks \in BOOLEAN :
       LET r == get_params(kind, fields, overflow_checks) IN
       IF r.ok
       THEN /\ target' = [field |-> r.field, from |-> r.from]
            /\ wrappers' = default_set(gen)
            /\ pc' = "wrappers"
            /\ UNCHANGED result
       ELSE /\ result' = r.err
            /\ pc' = "done"
            /\ UNCHANGED <<target, wrappers>>
    /\ UNCHANGED <<call, other, run, gen, kind, fields, variant, nvar, level, list, last, table,
                   seen, output, request>>

\* get_wrappers: the loop body for the attribute attr
ReadAttr(attr) ==
    /\ gen # "from" /\ pc = "wrappers"
    /\ LET r == ResolveOne(gen, attr, wrappers) IN
       /\ request' = request \o Read(gen, attr)
       /\ IF r.ok
          THEN /\ wrappers' = r.wrappers
               /\ UNCHANGED <<pc, result>>
          ELSE /\ result' = r.err
               /\ pc' = "done"
               /\ wrappers' = <<>>
    /\ UNCHANGED <<call, other, run, gen, kind, fields, variant, nvar, level, list, last, table, seen,
                   output, target>>

\* get_wrappers: one attribute of the declaration
WrapperAttr ==
    \E attr \in WrapperAttrs(gen, fields, MaxNames - Len(request)) : ReadAttr(attr)

\* get_wrappers returns the filtered list; inner / inner_mut emit one impl per
\* element, and into_token_stream2 panics on an element that is no leaf
EndWrappers ==
    /\ gen # "from" /\ pc = "wrappers"
    /\ LET ws == FinishWrappers(gen, wrappers) IN
       /\ wrappers' = ws
       /\ IF \A i \in 1..Len(ws) : IsLeaf(gen, ws[i])
          THEN /\ result' = Ok
               /\ output' = BaseImpls(gen, target.from, target.field)
                              \o [i \in 1..Len(ws) |->
                                    Wrapper_into_token_stream2(gen, ws[i], target.from,
                                                               target.field)]
          ELSE /\ result' = Panic(MSG_UNREACHABLE)
               /\ UNCHANGED output
    /\ pc' = "done"
    /\ UNCHANGED <<call, other, run, gen, kind, fields, variant, nvar, level, list, last, table,
                   seen, request, target>>

NextWrapper ==
    \/ GetParams
    \/ WrapperAttr
    \/ EndWrappers

SpecWrapper == InitWrapper /\ [][NextWrapper]_vars

(***************************************************************************)
(* The Wrapper generator on struct W(u8) with number-format requests: the  *)
(* group NumberFmt and the names of its members, in lists of any length.   *)
(***************************************************************************)
FmtNames == {"NumberFmt", "LowerHex", "UpperHex", "LowerExp", "UpperExp", "Octal"}

FmtAttrs(room) ==
    {Attr(IDENT("wrapper"), MetaList(n)) :
        n \in SeqsUpTo({NestedPath(<<name>>) : name \in FmtNames}, room)}

InitFmt ==
    /\ InitWrapper
    /\ gen = "wrapper" /\ kind = "struct" /\ fields = NewtypeFields

\* get_wrappers: one #[wrapper(...)] attribute of number-format names
FmtAttr ==
    \E attr \in FmtAttrs(MaxFmt - Len(request)) : ReadAttr(attr)

NextFmt ==
    \/ GetParams
    \/ FmtAttr
    \/ EndWrappers

SpecFmt == InitFmt /\ [][NextFmt]_vars

(***************************************************************************)
(* The emitted Add and Display impls applied to values: the Wrapper        *)
(* generator on a struct of one u8 field with requests over Add and        *)
(* Display, then add on two wrappers and fmt on the sum.                   *)
(***************************************************************************)
\* a value of the wrapper: the wrapped integer under the token of its field
Value(field, n) == [f \in {field} |-> n]

\* ::core::ops::Add::add on the wrapped integers; the sums of the range stay in u8
IntAdd(x, y) == x + y

Digits == <<"0", "1", "2", "3", "4", "5", "6", "7", "8", "9">>

\* ::core::fmt::Display::fmt of an unsigned integer: its decimal digits
RECURSIVE IntDisplay(_)
IntDisplay(n) ==
    IF n < 10 THEN Digits[n + 1]
    ELSE IntDisplay(n \div 10) \o Digits[(n % 10) + 1]

\* a variant of the body of add that returns its left operand
AddBodyLeft(impl, x, y) == x

\* the body the Add arm emits: Self { #field: Add::add(self.#field, rhs.#field) }
AddBody(impl, x, y) ==
    Value(impl.field, IntAdd(x[impl.field], y[impl.field]))

\* the body the Display arm emits: Display::fmt(&self.#field, f)
DisplayBody(impl, x) == IntDisplay(x[impl.field])

\* the emitted impl of the trait
ImplOf(trait) == output[CHOOSE i \in 1..Len(output) : output[i].trait = trait]

\* the emitted impls compile and one of them is of the trait: two impls of one
\* trait for the type conflict (E0119), and then nothing of the program runs
Emitted(trait) ==
    /\ \A i, j \in 1..Len(output) : output[i].trait = output[j].trait => i = j
    /\ \E i \in 1..Len(output) : output[i].trait = trait

ApplyFields ==
    {NamedFields(<<TypePath(<<"u8">>)>>, <<w>>) : w \in 0..1}
      \cup {UnnamedFields(<<TypePath(<<"u8">>)>>, <<w>>) : w \in 0..1}

ApplyAttrs(room) ==
    {Attr(IDENT("wrapper"), MetaList(n)) :
        n \in SeqsUpTo({NestedPath(<<"Add">>), NestedPath(<<"Display">>)}, room)}

InitApply ==
    /\ InitWrapper
    /\ gen = "wrapper" /\ kind = "struct" /\ fields \in ApplyFields

\* get_wrappers: one #[wrapper(...)] attribute over Add and Display
ApplyAttr ==
    \E attr \in ApplyAttrs(MaxOps - Len(request)) : ReadAttr(attr)

\* the emitted Add::add on the wrappers of a and b
Add_add ==
    /\ gen = "wrapper" /\ pc = "done" /\ result = Ok
    /\ run = NoRun /\ Emitted("Add")
    /\ \E a, b \in 0..MaxInt :
          run' = [stage |-> "added", a |-> a, b |-> b,
                  sum |-> AddBody(ImplOf("Add"), Value(target.field, a),
                                  Value(target.field, b))]
    /\ UNCHANGED <<call, other, gen, kind, fields, variant, nvar, pc, level, list, last, table,
                   seen, result, output, wrappers, request, target>>

\* the emitted Display::fmt on the sum
Display_fmt ==
    /\ gen = "wrapper" /\ pc = "done" /\ result = Ok
    /\ run.stage = "added" /\ Emitted("Display")
    /\ run' = [stage |-> "shown", a |-> run.a, b |-> run.b, sum |-> run.sum,
               text |-> DisplayBody(ImplOf("Display"), run.sum)]
    /\ UNCHANGED <<call, other, gen, kind, fields, variant, nvar, pc, level, list, last, table,
                   seen, result, output, wrappers, request, target>>

NextApply ==
    \/ GetParams
    \/ ApplyAttr
    \/ EndWrappers
    \/ Add_add
    \/ Display_fmt

SpecApply == InitApply /\ [][NextApply]_vars

(***************************************************************************)
(* Attribute diagnostics: src/helpers/src/error.rs                         *)
(***************************************************************************)
\* the generators are at rest while a function of the helpers or of the
\* enumerations is applied
Idle ==
    /\ gen = "none" /\ kind = "struct" /\ fields = UnitFields
    /\ variant = None /\ nvar = 0 /\ pc = "done" /\ level = 0
    /\ list = <<>> /\ last = "none" /\ table = <<>> /\ seen = SeenNone
    /\ result = Running /\ output = <<>>
    /\ WrapperIdle
    /\ run = NoRun /\ other = NoOther

\* enum Error
SingularAttrRequired(name) == [tag |-> "SingularAttrRequired", name |-> name]
ParametrizedAttrRequired(name) == [tag |-> "ParametrizedAttrRequired", name |-> name]
ArgMustBePath == [tag |-> "ArgMustBePath"]
ArgNameRequired == [tag |-> "ArgNameRequired"]
ArgNameMustBeIdent(path) == [tag |-> "ArgNameMustBeIdent", path |-> path]
ArgValueRequired(name) == [tag |-> "ArgValueRequired", name |-> name]
ArgValueMustBeLiteral == [tag |-> "ArgValueMustBeLiteral"]
ArgValueMustBeType == [tag |-> "ArgValueMustBeType"]
ParametrizedAttrHasNoValue(name) == [tag |-> "ParametrizedAttrHasNoValue", name |-> name]
NestedListsNotSupported(name, metalist) ==
    [tag |-> "NestedListsNotSupported", name |-> name, list |-> metalist]

\* the identifiers carried by the errors, and the lists arg(...) of up to MaxArgs
\* identifiers, written with or without a comma after the last one
ErrorIdents == {"from", "wrapper"}

ErrorValues ==
    LET ErrorLists == {l \in [path : {<<i>> : i \in ErrorIdents},
                              nested : SeqsUpTo(ErrorIdents, MaxArgs),
                              trailing : BOOLEAN] :
                          l.trailing => Len(l.nested) > 0} IN
    {ArgMustBePath, ArgNameRequired, ArgValueMustBeLiteral, ArgValueMustBeType}
      \cup {SingularAttrRequired(i) : i \in ErrorIdents}
      \cup {ParametrizedAttrRequired(i) : i \in ErrorIdents}
      \cup {ArgNameMustBeIdent(p) : p \in Paths}
      \cup {ArgValueRequired(i) : i \in ErrorIdents}
      \cup {ParametrizedAttrHasNoValue(i) : i \in ErrorIdents}
      \cup {NestedListsNotSupported(i, l) : i \in ErrorIdents, l \in ErrorLists}

\* {:?} of an identifier, of a path and of a meta list: the derived Debug of the
\* syntax tree, which names every identifier of the tree. An identifier is
\* written by proc_macro2: outside a macro expansion as Ident(from), inside one
\* by the compiler with the span of the identifier, as
\* Ident { ident: "from", span: #7 bytes(31..43) }. env tells which, and the span
\* of every identifier of the error: env.span[k] is the span of the k-th
\* identifier of its path or list, in the order of the source
DebugIdent(ident, env, k) ==
    IF env.expansion
    THEN "Ident { ident: \"" \o ident \o "\", span: " \o env.span[k] \o " }"
    ELSE "Ident(" \o ident \o ")"

\* the segments of a path whose first identifier is the k-th of the error
RECURSIVE DebugSegments(_, _, _)
DebugSegments(path, env, k) ==
    IF Len(path) = 0 THEN ""
    ELSE "PathSegment { ident: " \o DebugIdent(path[1], env, k) \o ", arguments: None }"
           \o (IF Len(path) = 1 THEN ""
               ELSE ", Colon2, " \o DebugSegments(Tail(path), env, k + 1))

DebugPath(path, env, k) ==
    "Path { leading_colon: None, segments: [" \o DebugSegments(path, env, k) \o "] }"

\* the entries of a list from the k-th identifier of the error on, each followed
\* by its comma: the last one only where the list is written with it
RECURSIVE DebugNested(_, _, _, _)
DebugNested(nested, trailing, env, k) ==
    IF Len(nested) = 0 THEN ""
    ELSE "Meta(Path(" \o DebugPath(<<nested[1]>>, env, k) \o "))"
           \o (IF Len(nested) = 1
               THEN (IF trailing THEN ", Comma" ELSE "")
               ELSE ", Comma, " \o DebugNested(Tail(nested), trailing, env, k + 1))

DebugMetaList(metalist, env) ==
    "MetaList { path: " \o DebugPath(metalist.path, env, 1)
      \o ", paren_token: Paren, nested: ["
      \o DebugNested(metalist.nested, metalist.trailing, env, Len(metalist.path) + 1)
      \o "] }"

\* the messages without arguments; a backquote is written as '
MSG_ARG_MUST_BE_PATH == "attribute argument must be a path identifier"
MSG_ARG_NAME_REQUIRED == "attribute argument name is required"
MSG_ARG_VALUE_LITERAL == "attribute value must be a literal (string, int etc)"
\* a variant in which a value that must be a type is reported as one that must be
\* a literal
MSG_ARG_VALUE_TYPE_AS_LITERAL == "attribute value must be a literal (string, int etc)"
MSG_ARG_VALUE_TYPE == "attribute value for must be a valid type name"

\* impl Display for Error
Error_fmt(e, env) ==
    CASE e.tag = "SingularAttrRequired" ->
            "Attribute '" \o e.name
              \o "' must be in a singular form ('#[attr]' or '#[attr = ...]')"
      [] e.tag = "ParametrizedAttrRequired" ->
            "Attribute '" \o e.name
              \o "' must be in a parametrized form ('#[attr(...)]')"
      [] e.tag = "ArgMustBePath" -> MSG_ARG_MUST_BE_PATH
      [] e.tag = "ArgNameRequired" -> MSG_ARG_NAME_REQUIRED
      [] e.tag = "ArgNameMustBeIdent" ->
            "attribute arguments must be identifiers, not paths '"
              \o DebugPath(e.path, env, 1) \o "'"
      [] e.tag = "ArgValueRequired" ->
            "attribute or attribute argument value is required for '"
              \o e.name \o "'"
      [] e.tag = "ArgValueMustBeLiteral" -> MSG_ARG_VALUE_LITERAL
      [] e.tag = "ArgValueMustBeType" -> MSG_ARG_VALUE_TYPE
      [] e.tag = "ParametrizedAttrHasNoValue" ->
            "attribute '" \o e.name \o "' must be in a '#[" \o e.name
              \o " = ...]' form"
      [] e.tag = "NestedListsNotSupported" ->
            "attribute '" \o e.name \o "' must be in '" \o e.name
              \o " = ...' form and not in a form of nested list '"
              \o DebugMetaList(e.list, env) \o "'"

\* two errors are constructed, outside a macro expansion or inside one, where
\* each identifier of the path or of the list of each error has one of two spans;
\* outside an expansion a span has nothing to write
InitError ==
    /\ Idle
    /\ LET Spans == {"#0 bytes(149..153)", "#0 bytes(154..158)"}
           Idents(e) == IF "path" \in DOMAIN e THEN Len(e.path)
                        ELSE IF "list" \in DOMAIN e
                        THEN Len(e.list.path) + Len(e.list.nested)
                        ELSE 0
           SpansOf(e, expansion) ==
               IF expansion THEN [1..Idents(e) -> Spans]
               ELSE {[k \in 1..Idents(e) |-> ""]} IN
       \E e1, e2 \in ErrorValues, expansion \in BOOLEAN :
          \E f1 \in SpansOf(e1, expansion), f2 \in SpansOf(e2, expansion) :
             call = [fn |-> "fmt",
                     env |-> [expansion |-> expansion, span |-> <<f1, f2>>],
                     args |-> <<e1, e2>>, ret |-> <<>>]

\* to_string() of the next error
Display_Error ==
    /\ call.fn = "fmt" /\ Len(call.ret) < Len(call.args)
    /\ LET k == Len(call.ret) + 1
           env == [expansion |-> call.env.expansion, span |-> call.env.span[k]] IN
       call' = [call EXCEPT !.ret = Append(@, Error_fmt(call.args[k], env))]
    /\ UNCHANGED <<other, run, gen, kind, fields, variant, nvar, pc, level, list,
                   last, table, seen, result, output, wrappers, request, target>>

SpecError == InitError /\ [][Display_Error]_vars

(***************************************************************************)
(* Name resolution of the two enumerations applied to pairs of names:      *)
(* every name of either enumeration and a name of neither.                 *)
(***************************************************************************)
\* two paths of one identifier are handed to from_path of one enumeration
InitPath ==
    LET names == Range(WrapperEnum) \cup Range(WrapperMutEnum) \cup {"Foo"} IN
    /\ Idle
    /\ \E T \in {"wrapper", "wrapper_mut"}, n1, n2 \in names :
          call = [fn |-> "from_path", ty |-> T, args |-> <<<<n1>>, <<n2>>>>,
                  ret |-> <<>>]

\* T::from_path on the next path
FromPath ==
    /\ call.fn = "from_path" /\ Len(call.ret) < Len(call.args)
    /\ call' = [call EXCEPT
                  !.ret = Append(@, from_path(call.ty, call.args[Len(@) + 1]))]
    /\ UNCHANGED <<other, run, gen, kind, fields, variant, nvar, pc, level, list,
                   last, table, seen, result, output, wrappers, request, target>>

SpecPath == InitPath /\ [][FromPath]_vars

(***************************************************************************)
(* Two invocations in one compilation: each derive on each declaration is  *)
(* one call of inner / inner_mut with its own locals; the driver runs the  *)
(* calls one after the other or interleaved. The variables hold the locals *)
(* of the invocation that is stepping, other holds those of the second.    *)
(***************************************************************************)
\* the locals of the invocation that is stepping
Local ==
    [gen |-> gen, kind |-> kind, fields |-> fields, variant |-> variant,
     nvar |-> nvar, pc |-> pc, level |-> level, list |-> list, last |-> last,
     table |-> table, seen |-> seen, result |-> result, output |-> output,
     wrappers |-> wrappers, request |-> request, target |-> target]

\* the locals on entry of inner / inner_mut: InstructionTable::new(), no wrapper
\* collected
Start(g, k, fs) ==
    [gen |-> g, kind |-> k, fields |-> fs, variant |-> None, nvar |-> 0,
     pc |-> IF g # "from" THEN "params"
            ELSE IF k = "enum" THEN "top" ELSE "attrs",
     level |-> 0, list |-> <<>>, last |-> "none", table |-> <<>>,
     seen |-> SeenNone, result |-> Running, output |-> <<>>,
     wrappers |-> <<>>, request |-> <<>>, target |-> NoTarget]

\* each of the three derives on struct S(u8)
UnitStarts ==
    {Start(g, "struct", NewtypeFields) : g \in {"from", "wrapper", "wrapper_mut"}}

\* the attributes written on the declarations
UnitFromAttrs ==
    {Attr(NAME, MetaPath), Attr(NAME, MetaNameValue)}
      \cup {Attr(NAME, MetaList(<<NestedPath(p)>>)) : p \in Paths}

UnitWrapperAttrs(T) ==
    {Attr(IDENT(T), MetaList(<<NestedPath(<<n>>)>>)) :
        n \in {IF T = "wrapper" THEN "Add" ELSE "AddAssign", "NoRefs", "Foo"}}

InitUnit ==
    /\ \E s \in UnitStarts :
          /\ gen = s.gen /\ kind = s.kind /\ fields = s.fields
          /\ variant = s.variant /\ nvar = s.nvar /\ pc = s.pc
          /\ level = s.level /\ list = s.list /\ last = s.last
          /\ table = s.table /\ seen = s.seen /\ result = s.result
          /\ output = s.output /\ wrappers = s.wrappers
          /\ request = s.request /\ target = s.target
    /\ other \in UnitStarts
    /\ run = NoRun
    /\ call = NoCall

\* InstructionEntry::parse: one attribute; request keeps the attributes read
UnitParseAttr ==
    /\ Len(request) < MaxUnit
    /\ \E attr \in UnitFromAttrs :
          /\ Parse(attr)
          /\ request' = Append(request, [level |-> level, attr |-> attr])

\* get_wrappers: one attribute
UnitWrapperAttr ==
    /\ Len(request) < MaxUnit
    /\ \E attr \in UnitWrapperAttrs(gen) : ReadAttr(attr)

\* a variant of the driver in which the instruction table is one for all
\* invocations
SwitchSharedTable ==
    /\ other # NoOther
    /\ other' = [Local EXCEPT !.table = other.table]
    /\ gen' = other.gen /\ kind' = other.kind /\ fields' = other.fields
    /\ variant' = other.variant /\ nvar' = other.nvar /\ pc' = other.pc
    /\ level' = other.level /\ list' = other.list /\ last' = other.last
    /\ table' = table /\ seen' = other.seen /\ result' = other.result
    /\ output' = other.output /\ wrappers' = other.wrappers
    /\ request' = other.request /\ target' = other.target
    /\ UNCHANGED <<run, call>>

\* the driver goes on with the other invocation: the locals of the one that was
\* stepping are kept as they are
Switch ==
    /\ other # NoOther
    /\ other' = Local
    /\ gen' = other.gen /\ kind' = other.kind /\ fields' = other.fields
    /\ variant' = other.variant /\ nvar' = other.nvar /\ pc' = other.pc
    /\ level' = other.level /\ list' = other.list /\ last' = other.last
    /\ table' = other.table /\ seen' = other.seen /\ result' = other.result
    /\ output' = other.output /\ wrappers' = other.wrappers
    /\ request' = other.request /\ target' = other.target
    /\ UNCHANGED <<run, call>>

NextUnit ==
    \/ UnitParseAttr
    \/ EndAttrs
    \/ GetParams
    \/ UnitWrapperAttr
    \/ EndWrappers
    \/ Switch

SpecUnit == InitUnit /\ [][NextUnit]_vars

(***************************************************************************)
(* Properties.                                                             *)
(***************************************************************************)
\* the wrapper generator has resolved the wrap target and returned from get_wrappers
Resolved == gen # "from" /\ pc = "done" /\ result.kind \in {"Ok", "Panic"}
              /\ target # NoTarget

\* C1: get_wrappers hands only leaf capabilities to the synthesis, for both
\* families: no element of the returned list is a group or NoRefs, and the
\* unreachable!() arm of into_token_stream2 is never entered.
C1_OnlyLeavesReachSynthesis ==
    Resolved =>
        /\ \A i \in 1..Len(wrappers) : IsLeaf(gen, wrappers[i])
        /\ result.kind # "Panic"

\* C2: the list get_wrappers returns holds no capability twice; stated of the
\* generations that succeed, whose list has one impl emitted per element.
C2_ResultDeduplicated ==
    (Resolved /\ result = Ok) =>
        \A i, j \in 1..Len(wrappers) : wrappers[i] = wrappers[j] => i = j

\* two of the entries have textually identical source types
Repeats(entries) ==
    \E i, j \in 1..Len(entries) :
        i < j /\ TypeTokens(entries[i].ty) = TypeTokens(entries[j].ty)

\* C3: the instruction table never holds two entries of the same source type,
\* whatever their targets; and an insertion that meets a source type a second time
\* (in the list being inserted or in the table) fails the generation with the
\* repeated-type error and emits nothing, while any other insertion succeeds.
C3_DuplicateSourceRejected ==
    /\ [](gen = "from" => ~Repeats(table))
    /\ [][EndAttrs =>
            IF Repeats(table \o list)
            THEN /\ result'.kind = "Err" /\ result'.fmt = MSG_REPEATED
                 /\ pc' = "done" /\ table' = <<>> /\ output' = <<>>
            ELSE /\ result'.kind # "Err"
                 /\ table' = table \o list]_vars

\* C3 witness: the second variant of an enum repeats, on its field, a source type
\* of the table, and the generation has failed with the repeated-type error
C3_Witness ==
    /\ gen = "from" /\ kind = "enum" /\ nvar = 2 /\ level = 1 /\ pc = "done"
    /\ result.kind = "Err" /\ result.fmt = MSG_REPEATED

\* C4: the repeated-type error names the repeated type: its message holds the
\* rendered source type that was met a second time.
C4_RepeatedErrorNamesType ==
    [][(EndAttrs /\ ~extend(table, list).ok) =>
          \E k \in 1..Len(result'.args) :
              result'.args[k] = Format(TypeTokens(extend(table, list).dup))]_vars

\* C5: a bare #[from] on a field is valid whatever the number of fields: it is not
\* rejected as a misplaced marker, and it records the instruction from that field's
\* type to that field.
C5_BareFieldMarkerValid ==
    (gen = "from" /\ level >= 1 /\ last = "Path") =>
        /\ ~(result.kind = "Err" /\ result.fmt = MSG_SINGLE)
        /\ pc = "attrs" =>
              /\ list # <<>>
              /\ list[Len(list)]
                   = Entry(fields.items[level].ty,
                           with_field(level - 1, fields.items[level], variant))

\* the generation of a struct with one field has ended, and the only #[from] read
\* is one bare #[from] at the type level
SingleFieldBareFrom ==
    /\ gen = "from" /\ kind = "struct" /\ Len(fields.items) = 1
    /\ seen = "bare" /\ pc = "done"

\* the emitted body of fn from: it writes the converted value v somewhere, and its
\* value is that of its last expression unless a semicolon ends it
WritesValue(tokens) == "v" \in Range(tokens)

ReturnsValue(tokens) == tokens # <<>> /\ tokens[Len(tokens)] # ";"

\* what the generator does on such a struct: exactly one instruction, from the
\* type of the field to the default target, whose body is Self::default();
SingleFieldBareFromAsCoded ==
    SingleFieldBareFrom =>
        /\ result = Ok
        /\ table = <<Entry(fields.items[1].ty, EntityDefault)>>
        /\ output = <<[trait |-> "From",
                       from |-> TypeTokens(fields.items[1].ty),
                       convert |-> <<"Self", "::", "default", "(", ")", ";">>]>>

\* C6: a struct with one field, no #[from] on the field and a bare #[from] on the
\* type yields exactly one instruction and one conversion: its source type is the
\* type of the field, and its body constructs the value through that field, which
\* is to say that it returns a value and that the converted value is written
\* into it.
C6_SingleFieldStructBareFrom ==
    SingleFieldBareFrom =>
        /\ result = Ok
        /\ Len(table) = 1 /\ table[1].ty = fields.items[1].ty
        /\ Len(output) = 1
        /\ output[1].trait = "From"
        /\ output[1].from = TypeTokens(fields.items[1].ty)
        /\ ReturnsValue(output[1].convert)
        /\ WritesValue(output[1].convert)

\* a #[from] attribute, of whatever form, has been read on the enum itself
EnumTopLevelFrom ==
    /\ gen = "from" /\ kind = "enum" /\ nvar = 0
    /\ last \in {"Path", "List", "NameValue", "Invalid"}

\* C7: an enum that carries a #[from] attribute of any form at its own level is
\* rejected with the top-level error before any variant is read, and nothing is
\* emitted.
C7_EnumTopLevelRejected ==
    EnumTopLevelFrom =>
        /\ pc = "done"
        /\ result = Err(MSG_TOP_LEVEL, <<>>)
        /\ table = <<>> /\ output = <<>>

C7_Witness == EnumTopLevelFrom /\ last = "List" /\ pc = "done"

\* the fields that carry a #[wrap] attribute
Marked(fs) == {i \in 1..Len(fs.items) : fs.items[i].wrap > 0}

\* the impls of the output for the trait
ImplsOf(trait) == {i \in 1..Len(output) : output[i].trait = trait}

\* wrapper(Display, Add) is all that the wrapper attributes request
RequestsDisplayAdd ==
    request = <<NestedPath(<<"Display">>), NestedPath(<<"Add">>)>>

\* a struct of two fields, exactly one of them marked, by one #[wrap]
TwoFieldsOneMarked ==
    /\ gen = "wrapper" /\ kind = "struct" /\ Len(fields.items) = 2
    /\ Cardinality(Marked(fields)) = 1
    /\ \A i \in 1..2 : fields.items[i].wrap <= 1

\* C8: on a struct of two fields, none marked #[wrap], the wrapper generation fails
\* with the error that asks for a #[wrap]; with exactly one field marked,
\* wrapper(Display, Add) succeeds and the Display and the Add impl are emitted on
\* the marked field.
C8_TwoFieldWrapper ==
    (gen = "wrapper" /\ kind = "struct" /\ Len(fields.items) = 2 /\ pc # "params") =>
        /\ Marked(fields) = {} =>
              /\ pc = "done" /\ result = Err(MSG_MULTI, <<>>)
              /\ output = <<>>
        /\ (TwoFieldsOneMarked /\ RequestsDisplayAdd /\ pc = "done") =>
              /\ result = Ok
              /\ \A trait \in {"Display", "Add"} :
                    /\ ImplsOf(trait) # {}
                    /\ \A i \in ImplsOf(trait) :
                          \E m \in Marked(fields) :
                              output[i].field = FieldToken(fields, m)

\* C8 witness: the second of two named fields is marked and both impls are emitted
C8_Witness ==
    /\ TwoFieldsOneMarked /\ RequestsDisplayAdd /\ pc = "done"
    /\ fields.style = "Named" /\ Marked(fields) = {2}
    /\ ImplsOf("Display") # {} /\ ImplsOf("Add") # {}

\* the field the claim makes eligible: the only marked field, or the sole field when
\* none is marked; 0 when there is none
Eligible(fs) ==
    IF Cardinality(Marked(fs)) = 1 THEN CHOOSE i \in Marked(fs) : TRUE
    ELSE IF Marked(fs) = {} /\ Len(fs.items) = 1 THEN 1
    ELSE 0

\* C9: get_params on a struct succeeds exactly when one field is eligible, and then
\* returns that field with its declared type; several fields and none marked, or
\* more than one field marked, is a fatal error.
C9_SucceedsIffOneEligible ==
    (gen # "from" /\ kind = "struct" /\ pc # "params") =>
        IF Eligible(fields) # 0
        THEN target = [field |-> FieldToken(fields, Eligible(fields)),
                       from |-> fields.items[Eligible(fields)].ty]
        ELSE /\ target = NoTarget
             /\ Len(fields.items) > 1 => (pc = "done" /\ result.kind = "Err")

\* C10: on a struct without fields, of whatever shape, get_params returns the
\* 'meaningless for unit structs' error as a value.
C10_NoFieldsIsErrorValue ==
    (gen # "from" /\ kind = "struct" /\ Len(fields.items) = 0 /\ pc # "params") =>
        /\ pc = "done"
        /\ result = Err(MSG_UNIT, <<>>)

\* the names a request lists, in order
Names(req) == [i \in 1..Len(req) |-> req[i].path[1]]

\* the members of the group NumberFmt, as the claim lists them
NumberFmtLeaves == <<"LowerHex", "UpperHex", "LowerExp", "UpperExp", "Octal">>

\* the list of names with every NumberFmt rewritten into the names of its members
RECURSIVE Rewritten(_)
Rewritten(names) ==
    IF Len(names) = 0 THEN <<>>
    ELSE (IF names[1] = "NumberFmt" THEN NumberFmtLeaves ELSE <<names[1]>>)
           \o Rewritten(Tail(names))

\* C11: wrapper(NumberFmt) resolves to the same list as
\* wrapper(LowerHex, UpperHex, LowerExp, UpperExp, Octal), the defaults followed by
\* the five leaves; and in general a request resolves to the defaults followed by
\* its names with every NumberFmt rewritten into its five members, nothing else.
C11_NumberFmtIsItsLeaves ==
    (gen = "wrapper" /\ fields = NewtypeFields /\ pc = "done"
       /\ \A i \in 1..Len(request) : request[i].kind = "Path"
                                        /\ request[i].path[1] \in FmtNames) =>
        /\ result = Ok
        /\ wrappers = default_set(gen) \o Rewritten(Names(request))
        /\ Names(request) \in {<<"NumberFmt">>, NumberFmtLeaves} =>
              wrappers = <<"AsRef", "Borrow">> \o NumberFmtLeaves

\* C11 witness: wrapper(NumberFmt) is resolved, to the defaults and the five leaves
C11_Witness ==
    /\ gen = "wrapper" /\ pc = "done" /\ result = Ok
    /\ Names(request) = <<"NumberFmt">>
    /\ wrappers = <<"AsRef", "Borrow">> \o NumberFmtLeaves

\* get_wrappers has returned a list for a request that lists the name
Requested(name) == Resolved /\ name \in Range(Names(request))

\* as-reference and borrow of the family
RefPair(T) == IF T = "wrapper" THEN {"AsRef", "Borrow"} ELSE {"AsMut", "BorrowMut"}

\* C12: whenever the request of a family lists NoRefs, at any position and in any
\* of its attributes, the list get_wrappers returns holds neither the as-reference
\* nor the borrow capability of the family, default or requested.
C12_NoRefsDropsAsRefAndBorrow ==
    Requested("NoRefs") => Range(wrappers) \cap RefPair(gen) = {}

\* C12 witness: BorrowMut is requested before NoRefs, in the mutable family
C12_Witness ==
    /\ Resolved /\ gen = "wrapper_mut"
    /\ Names(request) = <<"BorrowMut", "NoRefs">>
    /\ wrappers = <<"NoRefs">>

\* the capabilities of the family that are references: dereference, as-reference,
\* borrow and the byte-slice forms
RefCategory(T) ==
    IF T = "wrapper" THEN {"Deref", "AsRef", "AsSlice", "Borrow", "BorrowSlice"}
    ELSE {"DerefMut", "AsMut", "AsSliceMut", "BorrowMut", "BorrowSliceMut"}

\* C13: whenever the request lists NoRefs, the list get_wrappers returns holds no
\* capability of the reference category of the family.
C13_NoRefsDropsReferenceCategory ==
    Requested("NoRefs") => Range(wrappers) \cap RefCategory(gen) = {}

\* the leaves a request names, directly or through a group
LeavesNamed(T, req) ==
    UNION {IF Group(T, n) = <<>> THEN {n} ELSE Range(Group(T, n)) :
             n \in Range(Names(req))}

\* C14: without NoRefs in the request, get_wrappers returns the defaults of the
\* family and exactly the leaves the request names, directly or through a group;
\* with nothing requested it returns exactly the defaults.
C14_DefaultsPlusNamedLeaves ==
    (Resolved /\ ~Requested("NoRefs")) =>
        /\ result = Ok
        /\ Range(wrappers) = RefPair(gen) \cup LeavesNamed(gen, request)
        /\ request = <<>> =>
              wrappers = (IF gen = "wrapper" THEN <<"AsRef", "Borrow">>
                          ELSE <<"AsMut", "BorrowMut">>)

\* C14 witness: a leaf and a group are requested in the mutable family
C14_Witness ==
    /\ Resolved /\ gen = "wrapper_mut"
    /\ Names(request) = <<"DerefMut", "MathAssign">>
    /\ Range(wrappers) = {"AsMut", "BorrowMut", "DerefMut", "AddAssign", "SubAssign",
                           "MulAssign", "DivAssign", "RemAssign"}

\* the entry of a request is a path, as a capability name is
IsPathEntry(e) == e.kind = "Path" /\ "path" \in DOMAIN e

\* C15: a list entry whose name is no member of the enumeration of the family being
\* resolved, also when it is a member of the other family, ends the resolution
\* with the 'unrecognized' error reported at that name; no list is returned and
\* nothing is emitted.
C15_UnknownNameRejected ==
    gen # "from" =>
        \A i \in 1..Len(request) :
            (IsPathEntry(request[i]) /\ request[i].path[1] \notin AllNames(gen)) =>
                /\ pc = "done"
                /\ result = Err(MSG_UNRECOGNIZED, <<Format(PathTokens(request[i].path))>>)
                /\ wrappers = <<>> /\ output = <<>>

\* C15 witness: Display, of the immutable family, is listed in wrapper_mut after a
\* name of the mutable family
C15_Witness ==
    /\ gen = "wrapper_mut" /\ pc = "done"
    /\ request = <<NestedPath(<<"AddAssign">>), NestedPath(<<"Display">>)>>
    /\ result = Err(MSG_UNRECOGNIZED, <<"Display">>)

\* C16: every wrapper / wrapper_mut attribute that is no list of bare identifiers
\* ends the resolution with the 'type list' error: a bare or name-value attribute,
\* a list entry that is a literal or a nested list, and a list entry that is a path
\* of several segments.
C16_OnlyListsOfBareIdentifiers ==
    gen # "from" =>
        \A i \in 1..Len(request) :
            (~IsPathEntry(request[i]) \/ Len(request[i].path) > 1) =>
                /\ pc = "done"
                /\ result = Err(WRAPPER_DERIVE_ERR, <<>>)

\* the indexing capabilities of the immutable family
IndexCapabilities ==
    {"Index", "IndexRange", "IndexFull", "IndexFrom", "IndexTo", "IndexInclusive",
     "IndexToInclusive"}

\* C17: in every emitted impl of an indexing capability, the Output is the Index
\* output of the wrapped type for the index type the impl is declared for, which is
\* also the type of the argument of its index method.
C17_IndexOutputMatchesShape ==
    (gen = "wrapper" /\ pc = "done" /\ result = Ok) =>
        \A i \in 1..Len(output) :
            output[i].trait \in IndexCapabilities =>
                /\ output[i].out = output[i].index
                /\ output[i].arg = output[i].index

\* the capabilities that build the wrapper from a parsed value of the wrapped type
\* and have no value of the wrapper to forward from
Constructing == {"FromStr", "FromHex"}

\* C18: in both families the impl emitted for a leaf capability forwards to the
\* field get_params returned, named in the body itself; no body goes through
\* another capability of the wrapper (as the as_mut() of AsMut).
C18_BodiesForwardToTargetField ==
    (gen # "from" /\ pc = "done" /\ result = Ok) =>
        \A i \in 1..Len(output) :
            (output[i].trait \in Range(wrappers) \ Constructing) =>
                /\ output[i].via = "field"
                /\ output[i].field = target.field

\* C19: on a struct of one unsigned integer field with Add and Display requested,
\* the emitted add of the wrappers of a and b is the wrapper of a + b, and the
\* emitted fmt of the sum writes the decimal digits of a + b: "5" for 2 and 3.
C19_AddThenDisplay ==
    (gen = "wrapper" /\ run # NoRun) =>
        /\ run.sum = Value(target.field, run.a + run.b)
        /\ run.stage = "shown" =>
              /\ run.text = IntDisplay(run.a + run.b)
              /\ (run.a = 2 /\ run.b = 3) => run.text = "5"
              /\ (run.a = 9 /\ run.b = 8) => run.text = "17"

\* C19 witness: wrapper(Add, Display) on struct W(u8), 2 and 3 added and shown
C19_Witness ==
    /\ gen = "wrapper" /\ fields = NewtypeFields
    /\ Names(request) = <<"Add", "Display">>
    /\ run.stage = "shown" /\ run.a = 2 /\ run.b = 3
    /\ run.sum = Value("0", 5) /\ run.text = "5"

\* the whole output of a successful generation: one impl per instruction of the
\* table, or the impls of the wrapper trait and one impl per returned capability
CompleteOutput ==
    IF gen = "from" THEN output = Table_into_token_stream2(table)
    ELSE /\ Len(output) = Len(BaseImpls(gen, target.from, target.field)) + Len(wrappers)
         /\ \A i \in 1..Len(wrappers) :
               output[Len(output) - Len(wrappers) + i].trait = wrappers[i]

\* an attribute of the generator that is malformed or invalid has been read
BadAttribute ==
    IF gen = "from"
    THEN last \in {"NameValue", "Invalid", "List(List)", "List(Lit)"}
    ELSE \E i \in 1..Len(request) :
            ~IsPathEntry(request[i]) \/ request[i].path[1] \notin AllNames(gen)

\* C20: every generation ends by returning an error, with nothing emitted, or the
\* complete output; nothing is emitted before the end, and an attribute that is
\* malformed or invalid, wherever it stands, makes the generation return an error.
C20_AllOrNothing ==
    /\ pc = "done" => result.kind \in {"Ok", "Err"}
    /\ result.kind = "Ok" => (pc = "done" /\ CompleteOutput)
    /\ result.kind # "Ok" => output = <<>>
    /\ BadAttribute => (pc = "done" /\ result.kind = "Err")

\* the same, with a panic of the generator counted as a failure
AllOrNothingOrPanic ==
    /\ pc = "done" => result.kind \in {"Ok", "Err", "Panic"}
    /\ result.kind = "Ok" => (pc = "done" /\ CompleteOutput)
    /\ result.kind # "Ok" => output = <<>>
    /\ BadAttribute => (pc = "done" /\ result.kind = "Err")

\* the latest attribute was handed to InstructionEntry::parse: it stood on a
\* struct, a union, a variant or a field, and not on an enum itself
ParsedAttr == ~(kind = "enum" /\ nvar = 0)

\* the diagnostic of each malformed shape of a from attribute: the name-value
\* form, a list whose first entry that is no path is a nested list, and a list
\* whose first such entry is a literal
ShapeDiagnostic ==
    [s \in {"NameValue", "List(List)", "List(Lit)"} |->
        CASE s = "NameValue" -> Err(MSG_QUOTES, <<NAME>>)
          [] s = "List(List)" -> Err(MSG_WRONG_TYPE, <<NAME>>)
          [] s = "List(Lit)" -> Err(MSG_LITERAL, <<NAME>>)]

\* the diagnostics of two different shapes are different
ShapesDiffer ==
    \A s, t \in DOMAIN ShapeDiagnostic :
        s # t => ShapeDiagnostic[s].fmt # ShapeDiagnostic[t].fmt

\* C21 (amended): a from attribute in the name-value form, a list with a nested
\* list and a list with a literal each end the generation with an error and no
\* output; on a struct, a union, a variant or a field each does so with its own
\* diagnostic, and the three diagnostics are pairwise different, while on an
\* enum itself the error is the top-level one whatever the shape. A list
\* argument that is a path of several segments is no malformed shape.
C21_MalformedShapesRejected ==
    /\ (gen = "from" /\ last \in DOMAIN ShapeDiagnostic) =>
          /\ pc = "done"
          /\ output = <<>>
          /\ result = IF ParsedAttr THEN ShapeDiagnostic[last]
                      ELSE Err(MSG_TOP_LEVEL, <<>>)
    /\ (gen = "from" /\ ~ParsedAttr /\ last = "List") =>
          /\ pc = "done"
          /\ output = <<>>
          /\ result = Err(MSG_TOP_LEVEL, <<>>)
    /\ ShapesDiffer

\* a list on the first field of a variant is rejected for a literal
C21_Witness ==
    /\ gen = "from" /\ last = "List(Lit)" /\ kind = "enum" /\ nvar = 1
    /\ level = 1
    /\ result = Err(MSG_LITERAL, <<NAME>>)

\* C21 as stated: every from attribute of one of the three shapes ends the
\* generation with the diagnostic of its shape and no output, the diagnostics
\* differ, and a list argument that is no single identifier is rejected as well:
\* no list attribute is accepted with a path of several segments among the
\* instructions it adds
C21_NonIdentifierRejected ==
    /\ [](/\ (gen = "from" /\ last \in DOMAIN ShapeDiagnostic) =>
                /\ pc = "done"
                /\ output = <<>>
                /\ result = ShapeDiagnostic[last]
          /\ ShapesDiffer)
    /\ [][(gen = "from" /\ last' = "List" /\ pc' = "attrs") =>
             \A i \in (Len(list) + 1)..Len(list') : Len(list'[i].ty.path) = 1]_vars

\* the latest attribute is a bare #[from] on a struct, a union or a variant
BareTypeLevelFrom ==
    gen = "from" /\ ParsedAttr /\ level = 0 /\ last = "Path"

\* C22: a bare #[from] at the type level of a struct or union, or at the level of
\* an enum variant, is accepted only when the entity has exactly one field, and
\* then it adds the instruction for the type of that field; with no field or
\* with two or more fields the generation ends with the single-field error and
\* nothing is emitted.
C22_BareTypeLevelNeedsOneField ==
    BareTypeLevelFrom =>
        IF Len(fields.items) = 1
        THEN /\ result # Err(MSG_SINGLE, <<NAME>>)
             /\ pc = "attrs" =>
                   /\ list # <<>>
                   /\ list[Len(list)].ty = fields.items[1].ty
        ELSE /\ pc = "done"
             /\ result = Err(MSG_SINGLE, <<NAME>>)
             /\ table = <<>> /\ output = <<>>

\* a bare #[from] on a union of two fields is rejected
C22_Witness ==
    /\ BareTypeLevelFrom /\ kind = "union" /\ Len(fields.items) = 2
    /\ result = Err(MSG_SINGLE, <<NAME>>)

\* in an emitted construction: the place of the converted value, the number of
\* default values written before it and the number of arguments closed before it
ValuePos(tokens) ==
    CHOOSE i \in 1..Len(tokens) :
        tokens[i] = "v" /\ \A j \in 1..(i - 1) : tokens[j] # "v"

DefaultsBefore(tokens) ==
    Cardinality({i \in 1..(ValuePos(tokens) - 1) : tokens[i] = "Default"})

SlotOfValue(tokens) ==
    Cardinality({i \in 1..(ValuePos(tokens) - 1) : tokens[i] = ","})

\* the instructions read on the positional field that is being scanned
OnPositionalField ==
    /\ gen = "from" /\ pc = "attrs" /\ level >= 1
    /\ fields.style = "Unnamed"

\* C23: an instruction read on the positional field at index i (counted from 0)
\* targets index i, and its emitted construction writes exactly i default values
\* before the converted value, which stands at position i; the same holds for
\* every positional instruction of the table, whose impl is emitted on success.
C23_DefaultsBeforePositionalTarget ==
    /\ OnPositionalField =>
          \A k \in 1..Len(list) :
              LET tokens == Entity_into_token_stream2(list[k].entity) IN
              /\ list[k].entity = EntityUnnamed(variant, level - 1)
              /\ DefaultsBefore(tokens) = level - 1
              /\ SlotOfValue(tokens) = level - 1
    /\ (gen = "from" /\ result = Ok) =>
          \A k \in 1..Len(table) :
              table[k].entity.tag = "Unnamed" =>
                  /\ DefaultsBefore(output[k].convert) = table[k].entity.index
                  /\ SlotOfValue(output[k].convert) = table[k].entity.index

\* an instruction is pending on the second positional field
C23_Witness ==
    OnPositionalField /\ level = 2 /\ list # <<>>

\* a wrapper generator has got past get_params on an enum or a union
NotAStruct == gen # "from" /\ kind \in {"enum", "union"} /\ pc # "params"

\* C24: the wrapper generators reject every enum and every union, whatever its
\* fields and #[wrap] markers, with the 'not supported' error of its kind; no
\* target is chosen, no capability attribute is read or resolved and nothing is
\* emitted.
C24_EnumAndUnionRejected ==
    NotAStruct =>
        /\ pc = "done"
        /\ result = Err(IF kind = "enum" THEN MSG_ENUM ELSE MSG_UNION, <<>>)
        /\ target = NoTarget
        /\ request = <<>> /\ wrappers = <<>> /\ output = <<>>

\* a union with one marked field out of two is rejected
C24_Witness ==
    /\ NotAStruct /\ kind = "union" /\ Len(fields.items) = 2
    /\ fields.items[1].wrap = 0 /\ fields.items[2].wrap = 1
    /\ result = Err(MSG_UNION, <<>>)

\* the text sub occurs in the text s
Contains(s, sub) ==
    \E i \in 1..(Len(s) - Len(sub) + 1) : SubSeq(s, i, i + Len(sub) - 1) = sub

\* the message m shows what the error e carries: its name between quotes, every
\* identifier of its path, the name and every argument of its list, each as {:?}
\* writes an identifier where the message is rendered
ShowsContext(e, m, env) ==
    /\ "name" \in DOMAIN e => Contains(m, "'" \o e.name \o "'")
    /\ "path" \in DOMAIN e =>
          \A i \in 1..Len(e.path) : Contains(m, DebugIdent(e.path[i], env, i))
    /\ "list" \in DOMAIN e =>
          /\ Contains(m, DebugIdent(e.list.path[1], env, 1))
          /\ \A i \in 1..Len(e.list.nested) :
                Contains(m, DebugIdent(e.list.nested[i], env, i + 1))

\* C26: every Attribute Diagnostic renders to a message that is not empty and
\* that shows the name, path or list the diagnostic carries, and two diagnostics
\* of different variants never render to the same message.
C26_MessagesShowContextAndDiffer ==
    call.fn = "fmt" =>
        /\ \A k \in 1..Len(call.ret) :
              /\ Len(call.ret[k]) > 0
              /\ ShowsContext(call.args[k], call.ret[k],
                              [expansion |-> call.env.expansion,
                               span |-> call.env.span[k]])
        /\ (Len(call.ret) = 2 /\ call.args[1].tag # call.args[2].tag) =>
              call.ret[1] # call.ret[2]

\* a nested-list diagnostic and a path diagnostic have both been rendered inside
\* a macro expansion: the list is from(from,) and its two identifiers have
\* different spans, as the two identifiers of the path have
C26_Witness ==
    /\ call.fn = "fmt" /\ Len(call.ret) = 2
    /\ call.env.expansion
    /\ call.args[1].tag = "NestedListsNotSupported"
    /\ call.args[1].list.path = <<"from">> /\ call.args[1].list.nested = <<"from">>
    /\ call.args[1].list.trailing
    /\ call.env.span[1][1] # call.env.span[1][2]
    /\ call.args[2].tag = "ArgNameMustBeIdent"
    /\ Len(call.args[2].path) = 2
    /\ call.env.span[2][1] # call.env.span[2][2]

IsPrefix(s, t) == Len(s) <= Len(t) /\ SubSeq(t, 1, Len(s)) = s

\* on success there is one From impl per instruction of the table, in the order
\* of the table, for the source type and the target of the instruction
OneImplPerInstruction ==
    (gen = "from" /\ result = Ok) =>
        /\ Len(output) = Len(table)
        /\ \A k \in 1..Len(table) :
              /\ output[k].trait = "From"
              /\ output[k].from = TypeTokens(table[k].ty)
              /\ output[k].convert = Entity_into_token_stream2(table[k].entity)

\* the instructions of one attribute set are collected in attribute order, and the
\* table grows at its end by the whole set
InsertionOrder ==
    gen = "from" =>
        /\ (list' # list /\ list' # <<>>) => (IsPrefix(list, list') /\ table' = table)
        /\ (table' # table /\ table' # <<>>) => (table' = table \o list /\ list' = <<>>)

\* the attribute sets are visited in the order of the declaration: the entity,
\* then its fields in field order, and for an enum variant after variant
ScanOrder ==
    gen = "from" =>
        /\ level' # level =>
              \/ level' = level + 1 /\ level' <= Len(fields.items) /\ nvar' = nvar
              \/ level' = 0 /\ nvar' = nvar + 1
        /\ nvar' # nvar =>
              /\ kind = "enum" /\ nvar' = nvar + 1
              /\ variant' = VariantNames[nvar'] /\ list = <<>>

\* C27: a successful From generation emits exactly one From impl per instruction
\* of the table, in insertion order: the entries of the entity in attribute
\* order, then those of each field in field order, and for an enum the same per
\* variant in declaration order.
C27_OneImplPerInstructionInOrder ==
    /\ []OneImplPerInstruction
    /\ [][InsertionOrder /\ ScanOrder]_vars

\* a struct with an instruction of its own and one on its first field
C27_Witness ==
    /\ gen = "from" /\ kind = "struct" /\ result = Ok /\ Len(output) = 2
    /\ table[1].entity.tag = "Default" /\ table[2].entity.tag \in {"Named", "Unnamed"}
    /\ table[1].ty # table[2].ty

\* the variant tag an instruction carries (None when it carries no tag), and the
\* variant its emitted construction names after Self
TagOf(entity) == IF "variant" \in DOMAIN entity THEN entity.variant ELSE None

RoutedInto(tokens) ==
    IF Len(tokens) >= 3 /\ tokens[1] = "Self" /\ tokens[2] = "::"
          /\ tokens[3] \in Range(VariantNames)
    THEN tokens[3] ELSE None

\* the instruction entry carries the tag v and its construction routes into v
Routes(entry, v) ==
    /\ TagOf(entry.entity) = v
    /\ RoutedInto(Entity_into_token_stream2(entry.entity)) = v

\* the instructions of the attribute set being read on a struct, union or variant
Collecting == gen = "from" /\ pc = "attrs" /\ (kind = "enum" => nvar >= 1)

\* C28: the instructions found on a struct or union carry no variant tag and
\* construct the type directly; every instruction found on a variant V of an enum,
\* at the level of the variant or on one of its fields, carries the tag V and its
\* emitted construction routes into V.
C28_VariantTagRouting ==
    Collecting =>
        \A k \in 1..Len(list) :
            Routes(list[k], IF kind = "enum" THEN variant ELSE None)

\* the same for the instructions found on a field or on an entity without fields
TagOnFieldAndUnitTargets ==
    (Collecting /\ (level >= 1 \/ Len(fields.items) = 0)) =>
        \A k \in 1..Len(list) :
            Routes(list[k], IF kind = "enum" THEN variant ELSE None)

\* the emitted body of fn from starts with the call Self::default()
CallsDefault(tokens) ==
    IsPrefix(<<"Self", "::", "default", "(", ")">>, tokens)

\* the target of the instructions found at the level of the entity is the unit
\* target iff the entity has no field and the default target otherwise, the body
\* of the default target calls Self::default() and writes the converted value
\* nowhere, and the instructions found on a field write the converted value
TargetByFieldCount ==
    Collecting =>
        \A k \in 1..Len(list) :
            LET entity == list[k].entity
                tokens == Entity_into_token_stream2(entity) IN
            IF level >= 1
            THEN entity.tag \in {"Named", "Unnamed"} /\ WritesValue(tokens)
            ELSE IF Len(fields.items) = 0
            THEN /\ entity = EntityUnit(variant)
                 /\ tokens = <<"Self">> \o VarTokens(variant)
            ELSE /\ entity = EntityDefault
                 /\ CallsDefault(tokens) /\ ~WritesValue(tokens)

\* C30: the target of an instruction found at type level or variant level depends
\* only on the field count of the entity: the unit target iff there is no field,
\* the default target otherwise, whose emitted body returns the default value of
\* the type and writes the converted value into no field; only the instructions
\* found on a field write the converted value into a field.
C30_TypeLevelTargetByFieldCount ==
    /\ TargetByFieldCount
    /\ Collecting =>
          \A k \in 1..Len(list) :
              list[k].entity.tag = "Default" =>
                  ReturnsValue(Entity_into_token_stream2(list[k].entity))

\* C29: from_path of each enumeration gives, for the name of every member of the
\* enumeration (leaf, group or NoRefs), that member, and two different names
\* never resolve to the same member.
C29_FromPathRoundTrip ==
    call.fn = "from_path" =>
        /\ \A k \in 1..Len(call.ret) :
              call.args[k][1] \in AllNames(call.ty) =>
                  /\ call.ret[k].ok
                  /\ call.ret[k].some = call.args[k][1]
        /\ (Len(call.ret) = 2 /\ call.args[1] # call.args[2]
              /\ call.ret[1].some # None) =>
              call.ret[1].some # call.ret[2].some

\* a group of WrapperMut and NoRefs have both been resolved
C29_Witness ==
    /\ call.fn = "from_path" /\ call.ty = "wrapper_mut" /\ Len(call.ret) = 2
    /\ call.args = <<<<"BitAssign">>, <<"NoRefs">>>>
    /\ call.ret[1].some = "BitAssign" /\ call.ret[2].some = "NoRefs"

\* What an invocation with the locals s yields when it is run alone on the same
\* declaration and the same attributes: the From generator.
AttrsAt(s, l) == SelectSeq(s.request, LAMBDA h : h.level = l)

EntityAt(s, l) ==
    IF l = 0 THEN with_fields(s.fields, s.variant)
    ELSE with_field(l - 1, s.fields.items[l], s.variant)

RECURSIVE ParseAll(_, _, _, _)
ParseAll(fs, hist, entity, acc) ==
    IF Len(hist) = 0 THEN [ok |-> TRUE, add |-> acc]
    ELSE LET r == ParseOne(fs, hist[1].attr, entity) IN
         IF r.ok THEN ParseAll(fs, Tail(hist), entity, acc \o r.add) ELSE r

LevelAlone(s, l) == ParseAll(s.fields, AttrsAt(s, l), EntityAt(s, l), <<>>)

\* the table after the attribute sets of the entity and of the fields before l
RECURSIVE TableAlone(_, _)
TableAlone(s, l) ==
    IF l = 0 THEN [ok |-> TRUE, table |-> <<>>]
    ELSE LET t == TableAlone(s, l - 1)
             r == LevelAlone(s, l - 1) IN
         IF ~t.ok THEN t
         ELSE IF ~r.ok THEN r
         ELSE extend(t.table, r.add)

FromAlone(s) ==
    CASE s.pc = "attrs" ->
            /\ TableAlone(s, s.level).ok /\ LevelAlone(s, s.level).ok
            /\ s.table = TableAlone(s, s.level).table
            /\ s.list = LevelAlone(s, s.level).add
            /\ s.result = Running /\ s.output = <<>>
      [] s.pc = "done" /\ s.result = Ok ->
            LET t == TableAlone(s, Len(s.fields.items) + 1) IN
            /\ t.ok
            /\ s.table = t.table
            /\ s.output = Table_into_token_stream2(t.table)
      [] s.pc = "done" /\ s.result # Ok ->
            LET t == TableAlone(s, s.level + 1) IN
            /\ ~t.ok
            /\ s.result = t.err
            /\ s.output = <<>>

\* The same for the wrapper generators: the capabilities after the entries read.
RECURSIVE PopulateAll(_, _, _)
PopulateAll(T, req, acc) ==
    IF Len(req) = 0 THEN [ok |-> TRUE, wrappers |-> acc]
    ELSE IF ~IsPathEntry(req[1]) THEN [ok |-> FALSE, err |-> Err(WRAPPER_DERIVE_ERR, <<>>)]
    ELSE IF from_path(T, req[1].path).some = None
    THEN [ok |-> FALSE,
          err |-> Err(MSG_UNRECOGNIZED, <<Format(PathTokens(req[1].path))>>)]
    ELSE PopulateAll(T, Tail(req),
                     populate(T, from_path(T, req[1].path).some, acc))

WrapperAlone(s) ==
    LET g == get_params(s.kind, s.fields, TRUE)
        r == PopulateAll(s.gen, s.request, default_set(s.gen))
        ws == FinishWrappers(s.gen, r.wrappers) IN
    CASE s.pc = "params" -> s = Start(s.gen, s.kind, s.fields)
      [] s.pc # "params" /\ ~g.ok ->
            /\ s.pc = "done" /\ s.output = <<>>
            /\ \E oc \in BOOLEAN : s.result = get_params(s.kind, s.fields, oc).err
      [] s.pc = "wrappers" /\ g.ok ->
            /\ r.ok /\ s.wrappers = r.wrappers
            /\ s.result = Running /\ s.output = <<>>
      [] s.pc = "done" /\ g.ok /\ ~r.ok ->
            s.result = r.err /\ s.output = <<>>
      [] s.pc = "done" /\ g.ok /\ r.ok ->
            /\ s.wrappers = ws
            /\ IF \A i \in 1..Len(ws) : IsLeaf(s.gen, ws[i])
               THEN /\ s.result = Ok
                    /\ s.output =
                          BaseImpls(s.gen, g.from, g.field)
                            \o [i \in 1..Len(ws) |->
                                  Wrapper_into_token_stream2(s.gen, ws[i], g.from,
                                                             g.field)]
               ELSE s.result = Panic(MSG_UNREACHABLE) /\ s.output = <<>>

Alone(s) == IF s.gen = "from" THEN FromAlone(s) ELSE WrapperAlone(s)

\* C25: whatever the order in which the steps of two invocations are taken (one
\* alone, one after the other, interleaved), each invocation is at every moment
\* in the state, and ends with the error or the output, that its own declaration
\* and the attributes it has read give when it runs alone from an empty table
\* and the default set.
C25_InvocationsIndependent ==
    other # NoOther => (Alone(Local) /\ Alone(other))

\* an invocation has ended with its output while a From generation that started
\* before it is still collecting instructions
C25_Witness ==
    /\ other # NoOther
    /\ gen = "wrapper" /\ result = Ok /\ "Add" \in Range(wrappers)
    /\ other.gen = "from" /\ other.pc = "attrs" /\ other.table # <<>>
         /\ other.list # <<>>

====
